---- MODULE Spec2Model ----
(***************************************************************************)
(* StepViz: the execution-trace pipeline of src/services/PythonService.js  *)
(* (the Python tracer that runs inside Pyodide, and the JavaScript service *)
(* and store around it) and the list drawing recursion of                  *)
(* src/components/PythonTutorViz.jsx.                                      *)
(*                                                                         *)
(* Representation.                                                         *)
(*  - A heap id "idN" is the natural number N (f"id{id}" is injective).    *)
(*  - A text (capturer.value, a snapshot's output, the host stream) is the *)
(*    sequence of the chunks written to it; print(t) writes t and "\n".    *)
(*  - A live Python value is an int or a reference to a live object of     *)
(*    `objs`; the identity of a live object is its index in `objs`.        *)
(*  - A raw snapshot holds a REFERENCE to a heap map: heapRef says whether *)
(*    it is visualizer.heap (one dict shared by all captures of a run) or  *)
(*    the snapshot's own dict; to_js materialises the references.          *)
(***************************************************************************)
EXTENDS Naturals, Integers, Sequences, FiniteSets, TLC

(* ------------------------------ bounds -------------------------------- *)
\* statements of one user program
MaxLines == 3
\* runs of one session
MaxRuns == 2
\* elements of one user list
MaxElems == 2
\* depth at which the interpreter raises RecursionError (scaled down; every
\* acyclic object graph of the model is shallower)
RecursionLimit == 6

\* heap ids of a heap handed to the renderer
DrawIds == 2
\* elements of a list handed to the renderer
MaxDrawElems == 1

(* ------------------------ program constants --------------------------- *)
\* the depth limit of renderReferenceElement
MaxLevel == 3

\* f_lineno of run_with_trace at the fallback capture (script line of
\* `state = visualizer.capture_frame(frame)`)
RunWithTraceCaptureLine == 49

\* script lines of the two statements of OutputCapturer.write
WriteLines == <<7, 8>>
\* script lines of custom_input in the order their line events fire when the
\* prompt is empty: `if prompt:`, the call of handlePythonInput,
\* print(result), return result
CustomInputLines == <<9, 13, 16, 17>>
\* script lines of create_error_state in the order their line events fire:
\* full_message = ..., print(...), the dict display of `state` (its entries,
\* then the assignment), execution_steps.append(state)
CreateErrorStateLines == <<21, 22, 24, 25, 26, 27, 23, 29>>

\* names a user program of the model binds
VarNames == {"x", "y", "capturer"}
\* names a user program of the model binds to a list
ListNames == {"x", "y"}
\* names capture_frame skips in the global frame (none of the model's names
\* starts with "_")
CaptureSkipNames == {"sys", "json", "builtins", "custom_import", "visualization", "visualizer"}
\* names of the model that start with get_, set_, run_ or trace_
PrefixedNames == {}
\* names filter_system_variables removes
SystemNames == {"custom_import", "real_import", "unsupported_modules", "builtins", "json",
                "sys", "to_js", "visualizer", "execution_steps", "trace_execution",
                "run_with_trace", "create_error_state", "filter_system_variables"}
\* the modules custom_import rejects
unsupported_modules == {"numpy", "np", "pandas", "pd", "matplotlib", "plt", "scipy", "sk",
                        "sklearn", "requests"}
\* the modules the rejection message of custom_import enumerates
AllowList == {"__future__", "abc", "array", "bisect", "calendar", "cmath", "collections", "copy",
              "datetime", "decimal", "doctest", "fractions", "functools", "hashlib", "heapq",
              "io", "itertools", "json", "locale", "math", "operator", "pickle", "pprint",
              "random", "re", "string", "types", "typing", "unittest"}
\* the modules real_import finds in the runtime: the standard library, of
\* which os is a module the message does not enumerate
InstalledModules == AllowList \cup {"os"}
\* modules a program of the model imports
ImportedModules == {"numpy", "requests", "os"}

NL == "\n"

(* ------------------------- values and descriptors --------------------- *)
\* a live value: an int, a str, a module, or a reference to the live object o
IntVal(n) == [k |-> "int", n |-> n, o |-> 0, s |-> ""]
ObjVal(o) == [k |-> "obj", n |-> 0, o |-> o, s |-> ""]
StrVal(s) == [k |-> "str", n |-> 0, o |-> 0, s |-> s]
ModVal(name) == [k |-> "mod", n |-> 0, o |-> 0, s |-> name]

\* str(val) of a small int
Str(n) == <<"0", "1", "2", "3", "4", "5", "6", "7", "8", "9">>[n + 1]

Prim(s) == [type |-> "primitive", value |-> s, id |-> 0]
Ref(i) == [type |-> "reference", value |-> "", id |-> i]

\* heap entries; `signature` is the "value" of a function entry (a text),
\* `value` the "value" of a dict or Counter entry (a map)
ListEntry(ot, els) ==
    [type |-> "list", objectType |-> ot, elements |-> els, value |-> <<>>, annotation |-> "",
     name |-> "", signature |-> ""]
DictEntry(val) ==
    [type |-> "dict", objectType |-> "", elements |-> <<>>, value |-> val, annotation |-> "",
     name |-> "", signature |-> ""]
FunctionEntry(name, signature) ==
    [type |-> "function", objectType |-> "", elements |-> <<>>, value |-> <<>>, annotation |-> "",
     name |-> name, signature |-> signature]
CounterEntry(val, label) ==
    [type |-> "Counter", objectType |-> "", elements |-> <<>>, value |-> val, annotation |-> label,
     name |-> "", signature |-> ""]

EmptyMap == <<>>

\* the map m without the keys of ks
Without(m, ks) == [i \in (DOMAIN m) \ ks |-> m[i]]

(* --------------------------- VisualizerState -------------------------- *)
\* get_heap_id: returns the counter and increments it
GetHeapIdStuck(next) == [id |-> next, next |-> next]
GetHeapId(next) == [id |-> next, next |-> next + 1]

\* the allocation state threaded through process_value:
\*   heap = visualizer.heap, next = visualizer.next_heap_id,
\*   log = the ids get_heap_id returned so far in this run (history),
\*   ok = FALSE once RecursionError was raised
AllocReused(st) ==
    LET r == GetHeapId(st.next)
    IN [id |-> 1, st |-> [st EXCEPT !.next = r.next, !.log = Append(@, r.id)]]
Alloc(st) ==
    LET r == GetHeapId(st.next)
    IN [id |-> r.id, st |-> [st EXCEPT !.next = r.next, !.log = Append(@, r.id)]]

\* a dict value as process_value stringifies it: the "value" of the
\* descriptor of an int or str, str(v) otherwise
DictValue(items) ==
    [key \in DOMAIN items |->
        IF items[key].k = "int" THEN Str(items[key].n)
        ELSE IF items[key].k = "str" THEN items[key].s
        ELSE "<object>"]

RECURSIVE ProcessValue(_, _, _, _)
RECURSIVE ProcessElems(_, _, _, _, _)

\* the rest of the comprehension once its first element gave r
ProcessElemsRest(els, os, r, depth, acc) ==
    ProcessElems(Tail(els), os, r.st, depth, Append(acc, r.d))

\* [self.process_value(x) for x in val], left to right
ProcessElems(els, os, st, depth, acc) ==
    IF els = <<>> \/ ~st.ok THEN [ds |-> acc, st |-> st]
    ELSE ProcessElemsRest(els, os, ProcessValue(Head(els), os, st, depth), depth, acc)

\* isinstance(val, dict): collections.Counter is a subclass of dict
IsInstanceDict(o) == o.cls \in {"dict", "Counter"}

\* callable(val): the live objects of the model that can be called are classes
Callable(o) == o.cls = "type"

\* the list branch of process_value once the elements gave r: the entry is
\* stored under the id taken before the elements were processed
ListDescriptor(cls, id, r) ==
    IF ~r.st.ok THEN [d |-> Prim(""), st |-> r.st]
    ELSE [d |-> Ref(id), st |-> [r.st EXCEPT !.heap = (id :> ListEntry(cls, r.ds)) @@ @]]

\* process_value(val): the descriptor of val, with the heap entries it adds;
\* the branches are tried in the order of the source
ProcessValue(val, os, st, depth) ==
    IF ~st.ok THEN [d |-> Prim(""), st |-> st]
    ELSE IF depth > RecursionLimit THEN [d |-> Prim(""), st |-> [st EXCEPT !.ok = FALSE]]
    ELSE IF val.k = "mod" THEN [d |-> Prim("<module '" \o val.s \o "'>"), st |-> st]
    ELSE IF val.k = "int" THEN [d |-> Prim(Str(val.n)), st |-> st]
    ELSE IF val.k = "str" THEN [d |-> Prim(val.s), st |-> st]
    ELSE LET o == os[val.o] IN
         IF o.cls \in {"tuple", "list"} THEN
             LET a == Alloc(st)
             IN ListDescriptor(o.cls, a.id, ProcessElems(o.elems, os, a.st, depth + 1, <<>>))
         ELSE IF IsInstanceDict(o) THEN
             LET a == Alloc(st)
             IN [d |-> Ref(a.id),
                 st |-> [a.st EXCEPT !.heap = (a.id :> DictEntry(DictValue(o.items))) @@ @]]
         ELSE IF Callable(o) THEN
             \* a class has no __code__: the signature is its __name__
             LET a == Alloc(st)
             IN [d |-> Ref(a.id),
                 st |-> [a.st EXCEPT !.heap = (a.id :> FunctionEntry(o.name, o.name)) @@ @]]
         ELSE IF o.cls = "Counter" THEN
             \* reached only by an object that is neither a dict nor callable
             LET a == Alloc(st)
             IN [d |-> Ref(a.id),
                 st |-> [a.st EXCEPT !.heap =
                            (a.id :> CounterEntry(DictValue(o.items), "Counter object")) @@ @]]
         ELSE [d |-> Prim("<object>"), st |-> st]

\* the test of capture_frame on a name of the global frame
CaptureIncludes(name) ==
    /\ name \notin CaptureSkipNames
    /\ (name \in {"Counter", "winner", "input"} \/ name \notin PrefixedNames)

RECURSIVE CaptureVars(_, _, _, _, _)
\* the rest of the loop once process_value gave r for the first name
CaptureVarsRest(names, ns, os, r, acc) ==
    CaptureVars(Tail(names), ns, os, r.st, (Head(names) :> r.d) @@ acc)

\* the loop of capture_frame over the names of the frame, in binding order
CaptureVars(names, ns, os, st, acc) ==
    IF names = <<>> \/ ~st.ok THEN [vars |-> acc, st |-> st]
    ELSE IF ~CaptureIncludes(Head(names)) THEN CaptureVars(Tail(names), ns, os, st, acc)
    ELSE CaptureVarsRest(names, ns, os, ProcessValue(ns[Head(names)], os, st, 1), acc)

\* the state capture_frame returns for the frame called name, whose
\* variables gave r
FrameState(name, r, out, line) ==
    [step |-> [frame |-> [name |-> name, variables |-> r.vars],
               heapRef |-> "visualizer.heap", heap |-> EmptyMap,
               output |-> out, currentLine |-> line],
     st |-> r.st]

\* capture_frame(frame) of the user's module frame at line `line`:
\* order = the names of f_globals in insertion order, ns = their values
CaptureFrameNextLine(order, ns, os, st, out, line) ==
    FrameState("Global frame", CaptureVars(order, ns, os, st, EmptyMap), out, line + 1)
CaptureFrame(order, ns, os, st, out, line) ==
    FrameState("Global frame", CaptureVars(order, ns, os, st, EmptyMap), out, line)

\* the test of capture_frame on a local of a frame other than the module's
\* (no local of the model starts with "__")
CaptureIncludesLocal(name) == name \notin {"self", "cls"}

RECURSIVE CaptureLocalVars(_, _, _, _, _)
\* the rest of the loop once process_value gave r for the first local
CaptureLocalVarsRest(names, locals, os, r, acc) ==
    CaptureLocalVars(Tail(names), locals, os, r.st, (Head(names) :> r.d) @@ acc)

\* the loop of capture_frame over f_locals, in binding order
CaptureLocalVars(names, locals, os, st, acc) ==
    IF names = <<>> \/ ~st.ok THEN [vars |-> acc, st |-> st]
    ELSE IF ~CaptureIncludesLocal(Head(names))
    THEN CaptureLocalVars(Tail(names), locals, os, st, acc)
    ELSE CaptureLocalVarsRest(names, locals, os,
                              ProcessValue(locals[Head(names)], os, st, 1), acc)

\* capture_frame(frame) of the frame of the function co_name at script line
\* `line`: names = the names of f_locals in binding order
CaptureLocals(co_name, names, locals, os, st, out, line) ==
    FrameState(co_name, CaptureLocalVars(names, locals, os, st, EmptyMap), out, line)

(* ------------------------------- state -------------------------------- *)
VARIABLES
    \* PythonService (JavaScript)
    pyodide,            \* this.pyodide is set
    isCodeRunning,      \* this.isCodeRunning
    initPc,             \* where initialize() is
    queued,             \* run_with_trace calls runPythonAsync has scheduled, not yet started
    resolved,           \* results of run_with_trace whose runCode has not resumed yet (FIFO)
    \* usePythonStore
    isInitialized, isRunning, error, executionSteps, currentStepIndex, executionState,
    \* the Python globals of the setup scripts
    heap,               \* visualizer.heap
    next_heap_id,       \* visualizer.next_heap_id
    capturer_value,     \* capturer.value
    stdout_captured,    \* sys.stdout is capturer
    execution_steps,    \* execution_steps (raw snapshots)
    \* the interpreter running exec(code, namespace)
    namespace,          \* the user's globals: name -> live value
    order,              \* the names of namespace, in insertion order
    objs,               \* the live objects of the user program
    lineno,             \* frame.f_lineno of the module frame
    pc,                 \* where the run is
    exc,                \* the exception that escaped exec
    \* history
    host_stdout,        \* what this run wrote to sys.__stdout__
    allocated,          \* the ids get_heap_id returned in this run
    observed,           \* per raw snapshot: name -> identity of the bound live object
    executed,           \* the statements this run executed: [line, kind]
    rejected,           \* line of the import custom_import rejected in this run, or 0
    runs,               \* runCode calls made in this session
    thrown,             \* a runCode call returned a rejected promise
    inputs,             \* the calls of window.handlePythonInput: [running, provided, result]
    \* ExecutionControls
    isAutoPlaying,      \* the component state isAutoPlaying
    \* the renderer drawing one heap object (PythonTutorViz)
    drawHeap,           \* the heap of the snapshot being drawn
    drawStack,          \* the active drawList calls: [elements, i, level]
    drawPhase,          \* "idle", "drawing" or "done"
    drawCalls,          \* drawList calls made so far (history)
    omitted,            \* a referenced list or dict was left out at the cap (history)
    \* App and the panels of AlgorithmVisualizer
    code,               \* the code state of App, the prop of both panels
    explain,            \* the component state of AlgorithmExplanation
    requests,           \* the runs of its fetch effect: [code, phase, aborted, discarded]
    analysis,           \* the state of useComplexityAnalysis
    analyses,           \* the analyzeComplexity calls made: [code, phase]
    \* the renderer placing the heap objects of one frame
    placed              \* the reference variables placed: [index, type, pos]

jsVars == <<pyodide, isCodeRunning, isInitialized, isRunning, error, executionSteps,
            currentStepIndex, executionState>>
pyVars == <<heap, next_heap_id, capturer_value, stdout_captured, execution_steps>>
interpVars == <<namespace, order, objs, lineno, exc>>
histVars == <<host_stdout, allocated, observed, executed, rejected, runs>>
svcVars == <<initPc, thrown, inputs, isAutoPlaying>>
\* everything of the trace pipeline but the component state of the controls
traceVarsButControls == <<jsVars, pyVars, interpVars, pc, queued, resolved, histVars, initPc,
                          thrown, inputs>>
traceVars == <<jsVars, pyVars, interpVars, pc, queued, resolved, histVars, svcVars>>
drawVars == <<drawHeap, drawStack, drawPhase, drawCalls, omitted>>
uiVars == <<code, explain, requests, analysis, analyses, placed>>
vars == <<traceVars, drawVars, uiVars>>

\* untraced: the exception was raised by the trace function, which the
\* interpreter then uninstalls
NoExc == [type |-> "none", msg |-> "", untraced |-> FALSE]

\* the executionState of a fresh store; the frame has no name
DefaultExecutionState ==
    [frame |-> [name |-> "", variables |-> EmptyMap], heap |-> EmptyMap,
     output |-> <<>>, currentLine |-> 1]

\* the store and the Python side before any run; the Python globals the setup
\* scripts will define have the values the scripts give them
FreshTrace ==
    /\ executionSteps = <<>> /\ currentStepIndex = 0
    /\ executionState = DefaultExecutionState
    /\ heap = EmptyMap /\ next_heap_id = 1 /\ capturer_value = <<>>
    /\ execution_steps = <<>>
    /\ namespace = EmptyMap /\ order = <<>> /\ objs = <<>> /\ lineno = 1
    /\ pc = "idle" /\ exc = NoExc /\ queued = 0 /\ resolved = <<>>
    /\ host_stdout = <<>> /\ allocated = <<>> /\ observed = <<>> /\ executed = <<>>
    /\ rejected = 0 /\ runs = 0 /\ thrown = FALSE /\ inputs = <<>>
    /\ isAutoPlaying = FALSE

\* the state once initialize() has run the setup scripts: the store is
\* initialised, sys.stdout is the capturer
InitTrace ==
    /\ pyodide = TRUE /\ isCodeRunning = FALSE /\ initPc = "done"
    /\ isInitialized = TRUE /\ isRunning = FALSE /\ error = ""
    /\ stdout_captured = TRUE
    /\ FreshTrace

\* the state after construction: `new PythonService()` and the store as
\* created; initialize() has not been called
ServiceConstructed ==
    /\ pyodide = FALSE /\ isCodeRunning = FALSE /\ initPc = "constructed"
    /\ isInitialized = FALSE /\ isRunning = FALSE /\ error = ""
    /\ stdout_captured = FALSE
    /\ FreshTrace

\* the renderer has nothing to draw
DrawIdle ==
    /\ drawHeap = EmptyMap /\ drawStack = <<>> /\ drawPhase = "idle"
    /\ drawCalls = 0 /\ omitted = FALSE

\* App with its empty code state, the panels as useState creates them and no
\* frame laid out
PanelsIdle ==
    /\ code = ""
    /\ explain = [explanation |-> "", isLoading |-> FALSE, error |-> "", fetchedCode |-> ""]
    /\ requests = <<>>
    /\ analysis = [complexityAnalysis |-> "null", analysisComplete |-> FALSE]
    /\ analyses = <<>>
    /\ placed = <<>>

Init == InitTrace /\ DrawIdle /\ PanelsIdle

\* the application when the service object has just been constructed
InitService == ServiceConstructed /\ DrawIdle /\ PanelsIdle

(* ------------------- AlgorithmExplanation (the panel) ----------------- *)
\* the values the code prop takes; "" is the empty editor
PanelCodes == {"", "A", "B"}

\* runs of the fetch effect one session makes
MaxRequests == 3

\* data.explanation of the endpoint's response to { code: c }
ExplanationOf(c) == "explanation of " \o c

\* the effect's cleanup: clearTimeout(timer); controller.abort()
Cleanup(reqs) ==
    [i \in DOMAIN reqs |->
        IF reqs[i].aborted THEN reqs[i]
        ELSE [reqs[i] EXCEPT !.aborted = TRUE,
                             !.phase = IF @ = "timer" THEN "cleared" ELSE @]]

\* the effect's body for the prop c and the state fetched: nothing for an
\* empty or already fetched code, else a new controller and the 1 s timer
FetchEffect(c, fetched, reqs) ==
    IF c = "" \/ c = fetched THEN reqs
    ELSE Append(reqs, [code |-> c, phase |-> "timer", aborted |-> FALSE,
                       discarded |-> FALSE])

\* the effect runs again for the dependencies [c, fetched]: the cleanup of
\* the previous run, then the body
RerunEffect(c, fetched, reqs) == FetchEffect(c, fetched, Cleanup(reqs))

\* the component renders with another code prop
CodePropChanged ==
    /\ Len(requests) < MaxRequests
    /\ \E c \in PanelCodes \ {code} :
        /\ code' = c
        /\ requests' = RerunEffect(c, explain.fetchedCode, requests)
    /\ UNCHANGED <<traceVars, drawVars, explain, analysis, analyses, placed>>

\* the timer fires: fetchExplanation runs up to its first await
FetchExplanation ==
    \E i \in DOMAIN requests :
        /\ requests[i].phase = "timer"
        /\ explain' = [explain EXCEPT !.isLoading = TRUE, !.error = ""]
        /\ requests' = [requests EXCEPT ![i].phase = "fetching"]
        /\ UNCHANGED <<traceVars, drawVars, code, analysis, analyses, placed>>

\* fetch resolves with an ok response: fetchExplanation awaits response.json()
FetchResponded ==
    \E i \in DOMAIN requests :
        /\ requests[i].phase = "fetching" /\ ~requests[i].aborted
        /\ requests' = [requests EXCEPT ![i].phase = "parsing"]
        /\ UNCHANGED <<traceVars, drawVars, code, explain, analysis, analyses, placed>>

\* fetch rejects or the response is not ok, or response.json() rejects, for
\* a reason other than the abort: catch sets the error, finally clears
\* isLoading
FetchFailed ==
    \E i \in DOMAIN requests :
        /\ requests[i].phase \in {"fetching", "parsing"} /\ ~requests[i].aborted
        /\ explain' = [explain EXCEPT !.error = "Server error", !.isLoading = FALSE]
        /\ requests' = [requests EXCEPT ![i].phase = "settled"]
        /\ UNCHANGED <<traceVars, drawVars, code, analysis, analyses, placed>>

\* the signal was aborted while fetch or response.json() was pending: the
\* promise rejects with an AbortError, which catch and finally pass over
FetchAborted ==
    \E i \in DOMAIN requests :
        /\ requests[i].phase \in {"fetching", "parsing"} /\ requests[i].aborted
        /\ requests' = [requests EXCEPT ![i].phase = "settled"]
        /\ UNCHANGED <<traceVars, drawVars, code, explain, analysis, analyses, placed>>

\* the parsed response is applied whether or not the signal was aborted
ApplyExplanationUnguarded(st, req) ==
    [st EXCEPT !.explanation = ExplanationOf(req.code), !.fetchedCode = req.code,
               !.isLoading = FALSE]

\* what fetchExplanation does with the parsed response of the request req
ApplyExplanation(st, req) ==
    IF ~req.aborted
    THEN [st EXCEPT !.explanation = ExplanationOf(req.code), !.fetchedCode = req.code,
                    !.isLoading = FALSE]
    ELSE st

\* response.json() resolves, the body having been read in full; a changed
\* fetchedCode runs the effect again
JsonResolved ==
    \E i \in DOMAIN requests :
        /\ requests[i].phase = "parsing"
        /\ explain' = ApplyExplanation(explain, requests[i])
        /\ \E settled \in {[requests EXCEPT ![i].phase = "settled",
                                            ![i].discarded = requests[i].aborted]} :
            requests' = IF explain'.fetchedCode # explain.fetchedCode
                        THEN RerunEffect(code, explain'.fetchedCode, settled)
                        ELSE settled
        /\ UNCHANGED <<traceVars, drawVars, code, analysis, analyses, placed>>

NextExplain ==
    \/ CodePropChanged
    \/ FetchExplanation
    \/ FetchResponded
    \/ FetchFailed
    \/ FetchAborted
    \/ JsonResolved

\* the panel alone, its code prop changing under it
SpecExplain == Init /\ [][NextExplain]_vars

(* ----------------- useComplexityAnalysis (the hook) ------------------- *)
\* analyzeComplexity calls one session makes
MaxAnalyses == 3

\* what the endpoint's result for { code: c } shows
ComplexityOf(c) == "complexity of " \o c

\* AlgorithmVisualizer renders with another code: the effect of the hook
\* runs, and for a code that is not empty analyzeCode runs up to the fetch
\* of analyzeComplexity, through the callback that shows the loading state
CodeChanged ==
    /\ Len(analyses) < MaxAnalyses
    /\ \E c \in PanelCodes \ {code} :
        /\ code' = c
        /\ IF c = ""
           THEN /\ analysis' = [complexityAnalysis |-> "null", analysisComplete |-> FALSE]
                /\ UNCHANGED analyses
           ELSE /\ analysis' = [complexityAnalysis |-> "Analyzing...",
                                analysisComplete |-> FALSE]
                /\ analyses' = Append(analyses, [code |-> c, phase |-> "fetching"])
    /\ UNCHANGED <<traceVars, drawVars, explain, requests, placed>>

\* fetch resolves with an ok response: analyzeComplexity awaits response.json()
AnalysisResponded ==
    \E i \in DOMAIN analyses :
        /\ analyses[i].phase = "fetching"
        /\ analyses' = [analyses EXCEPT ![i].phase = "parsing"]
        /\ UNCHANGED <<traceVars, drawVars, code, explain, requests, analysis, placed>>

\* analyzeCode resumes with the value analyzeComplexity returned
SetFinalAnalysis(result) == [complexityAnalysis |-> result, analysisComplete |-> TRUE]

\* fetch or response.json() rejects, or the response is not ok:
\* analyzeComplexity returns its error result
AnalysisFailed ==
    \E i \in DOMAIN analyses :
        /\ analyses[i].phase \in {"fetching", "parsing"}
        /\ analysis' = SetFinalAnalysis("Error")
        /\ analyses' = [analyses EXCEPT ![i].phase = "settled"]
        /\ UNCHANGED <<traceVars, drawVars, code, explain, requests, placed>>

\* response.json() resolves: analyzeComplexity returns the result
AnalysisParsed ==
    \E i \in DOMAIN analyses :
        /\ analyses[i].phase = "parsing"
        /\ analysis' = SetFinalAnalysis(ComplexityOf(analyses[i].code))
        /\ analyses' = [analyses EXCEPT ![i].phase = "settled"]
        /\ UNCHANGED <<traceVars, drawVars, code, explain, requests, placed>>

NextComplexity ==
    \/ CodeChanged
    \/ AnalysisResponded
    \/ AnalysisFailed
    \/ AnalysisParsed

\* the hook alone, the code changing as the user types
SpecComplexity == Init /\ [][NextComplexity]_vars

(* ------------------ placing the heap objects of a frame --------------- *)
\* the entries of LAYOUT the placement reads
LAYOUT == [object |-> [startX |-> 380, verticalGap |-> 90], margin |-> [top |-> 15]]

\* utils.calculateHeapObjectPosition(index, type); verticalGap is even, so
\* the halves are whole numbers
calculateHeapObjectPosition(index, type) ==
    IF type = "list"
    THEN IF index % 10 # 0
         THEN [x |-> LAYOUT.object.startX + 220,
               y |-> LAYOUT.margin.top + 60 + (index * LAYOUT.object.verticalGap) \div 2]
         ELSE [x |-> LAYOUT.object.startX,
               y |-> LAYOUT.margin.top + 60 + (index \div 10) * LAYOUT.object.verticalGap]
    ELSE IF type = "dict"
    THEN [x |-> LAYOUT.object.startX,
          y |-> LAYOUT.margin.top + 60 + index * LAYOUT.object.verticalGap]
    ELSE [x |-> LAYOUT.object.startX + 100,
          y |-> LAYOUT.margin.top + 60 + (index * LAYOUT.object.verticalGap) \div 2]

\* the "type" of the heap entries process_value writes
ObjectTypes == {"list", "dict", "function", "Counter"}

\* the largest ordinal of a variable in the frame laid out
MaxIndex == 10

\* two reference variables of one frame, in the order of the frame, not drawn
Unplaced(i, t, j, u) ==
    <<[index |-> i, type |-> t, drawn |-> FALSE, pos |-> [x |-> 0, y |-> 0]],
      [index |-> j, type |-> u, drawn |-> FALSE, pos |-> [x |-> 0, y |-> 0]]>>

\* a frame to render: two of its variables are references, to heap objects
\* of any types
InitPlace ==
    /\ InitTrace /\ DrawIdle
    /\ code = ""
    /\ explain = [explanation |-> "", isLoading |-> FALSE, error |-> "", fetchedCode |-> ""]
    /\ requests = <<>>
    /\ analysis = [complexityAnalysis |-> "null", analysisComplete |-> FALSE]
    /\ analyses = <<>>
    /\ placed \in {Unplaced(i, t, j, u) : <<i, j>> \in {p \in (0..MaxIndex) \X (0..MaxIndex) : p[1] < p[2]},
                                          <<t, u>> \in ObjectTypes \X ObjectTypes}

\* renderVariable for the next reference variable of the frame:
\* renderReferenceVariable draws its heap object at heapPos
RenderReferenceVariable ==
    \E k \in DOMAIN placed :
        /\ ~placed[k].drawn
        /\ \A e \in 1..(k - 1) : placed[e].drawn
        /\ placed' = [placed EXCEPT ![k].drawn = TRUE,
                          ![k].pos = calculateHeapObjectPosition(placed[k].index, placed[k].type)]
        /\ UNCHANGED <<traceVars, drawVars, code, explain, requests, analysis, analyses>>

NextPlace == RenderReferenceVariable

\* the renderer laying out one frame
SpecPlace == InitPlace /\ [][NextPlace]_vars

(* ------------------------------ the store ----------------------------- *)
\* setCurrentStepIndex(index) on the store value st
SetCurrentStepIndexOnly(st, index) ==
    IF index >= 0 /\ index < Len(st.executionSteps)
    THEN [st EXCEPT !.currentStepIndex = index]
    ELSE st
SetCurrentStepIndex(st, index) ==
    IF index >= 0 /\ index < Len(st.executionSteps)
    THEN LET currentStep == st.executionSteps[index + 1]
             lastStep == st.executionSteps[Len(st.executionSteps)]
         IN [st EXCEPT !.currentStepIndex = index,
                       !.executionState = [currentStep EXCEPT !.output = lastStep.output]]
    ELSE st

\* resetExecutionState(store)
ResetExecutionState(st) ==
    SetCurrentStepIndex([st EXCEPT !.executionState = DefaultExecutionState,
                                   !.executionSteps = <<>>], 0)

\* runCode(code) up to its await: it throws when Pyodide is not loaded;
\* otherwise the flags, resetExecutionState, and the call of runPythonAsync,
\* which schedules run_with_trace.  Nothing in runCode looks at an earlier
\* call that has not resolved.
RunCodeStart ==
    /\ pc \in {"idle", "returned"} /\ runs < MaxRuns
    /\ runs' = runs + 1
    /\ IF ~pyodide
       THEN /\ thrown' = TRUE
            /\ UNCHANGED <<jsVars, queued>>
       ELSE /\ isCodeRunning' = TRUE /\ isRunning' = TRUE /\ error' = ""
            /\ LET st == ResetExecutionState([executionSteps |-> executionSteps,
                                              currentStepIndex |-> currentStepIndex,
                                              executionState |-> executionState])
               IN /\ executionSteps' = st.executionSteps
                  /\ currentStepIndex' = st.currentStepIndex
                  /\ executionState' = st.executionState
            /\ queued' = queued + 1
            /\ UNCHANGED <<pyodide, isInitialized, thrown>>
    /\ UNCHANGED <<uiVars, drawVars, initPc, inputs, isAutoPlaying, pyVars, interpVars, pc, resolved,
                   host_stdout, allocated, observed, executed, rejected>>

\* a runCode call is unresolved
Unresolved == queued > 0 \/ resolved # <<>>

\* handleVisualize of CodeEditor: the Run Code button is enabled once the
\* store is initialised and while no run the button started is unresolved
\* (isUserCodeRunning); the editor holds a program (code.trim() is not empty)
HandleVisualize ==
    /\ isInitialized /\ ~Unresolved
    /\ RunCodeStart

(* ---------------------------- run_with_trace -------------------------- *)
\* where initialize() is once RUN_WITH_TRACE_CODE has run: ahead of
\* INPUT_HANDLING_CODE, after its failure, or at the end
RunWithTraceDefined == {"input", "failedInput", "done"}

\* run_with_trace(code) up to exec: the resets and the fresh namespace
RunWithTraceBegin ==
    /\ pc \in {"idle", "returned"} /\ queued > 0 /\ initPc \in RunWithTraceDefined
    /\ queued' = queued - 1
    /\ heap' = EmptyMap /\ next_heap_id' = 1 /\ capturer_value' = <<>>
    /\ execution_steps' = <<>>
    /\ namespace' = EmptyMap /\ order' = <<>> /\ objs' = <<>> /\ lineno' = 1
    /\ exc' = NoExc /\ pc' = "line"
    /\ host_stdout' = <<>> /\ allocated' = <<>> /\ observed' = <<>> /\ executed' = <<>>
    /\ rejected' = 0
    /\ UNCHANGED <<uiVars, drawVars, svcVars, jsVars, stdout_captured, resolved, runs>>

\* the identities of the live objects the captured names are bound to
Identities(ns) ==
    [name \in {n \in DOMAIN ns : CaptureIncludes(n)} |->
        IF ns[name].k = "obj" THEN ns[name].o ELSE 0]

\* trace_execution(frame, event, arg) on a frame whose f_globals has
\* __name__ == "__main__": the module frame of the user program (co_name
\* "<module>", ord and ns its globals) or the frame of a function the setup
\* scripts define (ord and ns its locals).  es = execution_steps, st =
\* allocation state, out = get_output().
\* execution_steps.append(state) with the state c capture_frame returned,
\* unless capture_frame raised
AppendState(es, c) ==
    [es |-> IF c.st.ok THEN Append(es, c.step) ELSE es, st |-> c.st, captured |-> c.st.ok]

TraceExecution(co_name, event, line, ord, ns, os, es, st, out) ==
    IF co_name \in {"custom_import", "__import__"} \/ "custom_import" \in DOMAIN ns
    THEN [es |-> es, st |-> st, captured |-> FALSE]
    ELSE IF event = "line"
    THEN IF /\ Len(es) > 0
            /\ es[Len(es)].currentLine = line
            /\ co_name = "__main__"
         THEN [es |-> es, st |-> st, captured |-> FALSE]
         ELSE AppendState(es, IF co_name = "<module>"
                              THEN CaptureFrame(ord, ns, os, st, out, line)
                              ELSE CaptureLocals(co_name, ord, ns, os, st, out, line))
    ELSE [es |-> es, st |-> st, captured |-> FALSE]

\* the record [es, st, cv] after a call t of trace_execution, which leaves
\* capturer.value alone
Traced(t, cv) == [es |-> t.es, st |-> t.st, cv |-> cv]

RECURSIVE TraceLines(_, _, _, _, _, _)
\* the line events of `lines`, in this order, of one frame of the function
\* co_name (or of the module, "<module>") whose variables do not change
\* meanwhile.  w = [es, st, cv]: execution_steps, the allocation state,
\* capturer.value.
TraceLines(co_name, lines, ord, locals, os, w) ==
    IF lines = <<>> THEN w
    ELSE TraceLines(co_name, Tail(lines), ord, locals, os,
                    Traced(TraceExecution(co_name, "line", Head(lines), ord, locals, os,
                                          w.es, w.st, w.cv), w.cv))

\* the history `observed` brought to the length n of the raw trace: the
\* snapshots of other frames than the user's module bind no user object
Pad(obs, n) == obs \o [i \in 1..(n - Len(obs)) |-> EmptyMap]

AllocState == [heap |-> heap, next |-> next_heap_id, log |-> allocated, ok |-> TRUE]

\* the interpreter delivers the line event of the next statement of the
\* module (co_name "<module>"); an exception of the trace function is raised
\* in the traced frame
LineEvent ==
    /\ pc = "line" /\ Len(executed) < MaxLines
    /\ \E t \in {TraceExecution("<module>", "line", lineno, order, namespace, objs,
                                execution_steps, AllocState, capturer_value)} :
          /\ execution_steps' = t.es
          /\ heap' = t.st.heap /\ next_heap_id' = t.st.next /\ allocated' = t.st.log
          /\ observed' = IF t.captured THEN Append(observed, Identities(namespace))
                         ELSE observed
          /\ IF t.st.ok THEN pc' = "stmt" /\ exc' = exc
             ELSE /\ pc' = "exited"
                  /\ exc' = [type |-> "Exception", msg |-> "maximum recursion depth exceeded",
                              untraced |-> TRUE]
    /\ UNCHANGED <<uiVars, drawVars, svcVars, jsVars, capturer_value, stdout_captured, namespace, order, objs,
                   lineno, queued, resolved, host_stdout, executed, rejected, runs>>

(* ------------------------- the user's statements ---------------------- *)
\* Each action below is the interpreter executing the statement at line
\* `lineno` of the program passed to exec, after its line event.

ListObj(els) == [cls |-> "list", elems |-> els, items |-> EmptyMap, name |-> ""]
DictObj(its) == [cls |-> "dict", elems |-> <<>>, items |-> its, name |-> ""]
\* collections.Counter(...) with the counts its
CounterObj(its) == [cls |-> "Counter", elems |-> <<>>, items |-> its, name |-> ""]
\* the class object name
ClassObj(name) == [cls |-> "type", elems |-> <<>>, items |-> EmptyMap, name |-> name]

IsList(name) ==
    /\ name \in DOMAIN namespace
    /\ namespace[name].k = "obj"
    /\ objs[namespace[name].o].cls = "list"

\* an entry of the history `executed`: the statement of kind `kind` at
\* `line`, arg the module of an import (the right-hand side of a sum, the
\* argument of a print of a name), raised whether it raised
Executed(line, kind, arg, raised) == [line |-> line, kind |-> kind, arg |-> arg, raised |-> raised]

\* the statement completed: control moves to the next line
CompletedOf(kind, arg) ==
    /\ pc' = "line" /\ lineno' = lineno + 1
    /\ executed' = Append(executed, Executed(lineno, kind, arg, FALSE))
    /\ exc' = exc

Completed(kind) == CompletedOf(kind, "")

\* the statement raised an exception no handler of the program catches
RaisedOf(kind, arg, type, msg) ==
    /\ pc' = "exited" /\ lineno' = lineno
    /\ executed' = Append(executed, Executed(lineno, kind, arg, TRUE))
    /\ exc' = [type |-> type, msg |-> msg, untraced |-> FALSE]

Raised(kind, type, msg) == RaisedOf(kind, "", type, msg)

\* name = val
Bind(name, val) ==
    /\ namespace' = (name :> val) @@ namespace
    /\ order' = IF name \in DOMAIN namespace THEN order ELSE Append(order, name)

\* self.value += text
AddText(w, text) == [w EXCEPT !.cv = @ \o <<text>>]

\* sys.stdout.write(text) while the trace function is installed.  When
\* sys.stdout is the capturer this is OutputCapturer.write, a function of the
\* setup scripts: its two lines fire line events that trace_execution
\* captures (frame "write"), the first ahead of `self.value += text`.
\* Otherwise the text goes to the host stream alone.  w = [es, st, cv];
\* captured = sys.stdout is the capturer, traced = the trace function is set.
WriteCall(text, captured, traced, os, w) ==
    IF captured /\ traced
    THEN LET locals == ("self" :> StrVal("<capturer>")) @@ ("text" :> StrVal(text))
         IN TraceLines("write", SubSeq(WriteLines, 2, 2), <<"self", "text">>, locals, os,
                       AddText(TraceLines("write", SubSeq(WriteLines, 1, 1),
                                          <<"self", "text">>, locals, os, w), text))
    ELSE IF captured THEN AddText(w, text)
    ELSE w

RECURSIVE WriteAll(_, _, _, _, _)
\* print writes its texts one after the other
WriteAll(chunks, captured, traced, os, w) ==
    IF chunks = <<>> THEN w
    ELSE WriteAll(Tail(chunks), captured, traced, os,
                  WriteCall(Head(chunks), captured, traced, os, w))

\* print(...) at the statement the interpreter is executing
Write(chunks) ==
    \E w \in {WriteAll(chunks, stdout_captured, TRUE, objs,
                       [es |-> execution_steps, st |-> AllocState, cv |-> capturer_value])} :
       /\ capturer_value' = w.cv
       /\ execution_steps' = w.es
       /\ observed' = Pad(observed, Len(w.es))
       /\ host_stdout' = host_stdout \o chunks

\* name = 5
StmtAssignInt(name) ==
    /\ pc = "stmt"
    /\ Bind(name, IntVal(5))
    /\ Completed("assign")
    /\ UNCHANGED <<uiVars, drawVars, svcVars, jsVars, pyVars, objs, queued, resolved, host_stdout, allocated, observed,
                   rejected, runs>>

\* name = [1]
StmtAssignList(name) ==
    /\ pc = "stmt"
    /\ objs' = Append(objs, ListObj(<<IntVal(1)>>))
    /\ Bind(name, ObjVal(Len(objs) + 1))
    /\ Completed("assign")
    /\ UNCHANGED <<uiVars, drawVars, svcVars, jsVars, pyVars, queued, resolved, host_stdout, allocated, observed, rejected, runs>>

\* name = {key: 1}
StmtAssignDict(name, key) ==
    /\ pc = "stmt"
    /\ objs' = Append(objs, DictObj(key :> IntVal(1)))
    /\ Bind(name, ObjVal(Len(objs) + 1))
    /\ Completed("assign")
    /\ UNCHANGED <<uiVars, drawVars, svcVars, jsVars, pyVars, queued, resolved, host_stdout, allocated, observed, rejected, runs>>

\* name = other
StmtAlias(name, other) ==
    /\ pc = "stmt" /\ other \in DOMAIN namespace /\ name # other
    /\ Bind(name, namespace[other])
    /\ Completed("assign")
    /\ UNCHANGED <<uiVars, drawVars, svcVars, jsVars, pyVars, objs, queued, resolved, host_stdout, allocated, observed,
                   rejected, runs>>

\* name.append(2)
StmtAppend(name) ==
    /\ pc = "stmt" /\ IsList(name)
    /\ Len(objs[namespace[name].o].elems) < MaxElems
    /\ objs' = [objs EXCEPT ![namespace[name].o].elems = Append(@, IntVal(2))]
    /\ Completed("append")
    /\ UNCHANGED <<uiVars, drawVars, svcVars, jsVars, pyVars, namespace, order, queued, resolved, host_stdout, allocated,
                   observed, rejected, runs>>

\* name.append(other), other bound to a list or dict (name included)
StmtAppendRef(name, other) ==
    /\ pc = "stmt" /\ IsList(name)
    /\ other \in DOMAIN namespace /\ namespace[other].k = "obj"
    /\ Len(objs[namespace[name].o].elems) < MaxElems
    /\ objs' = [objs EXCEPT ![namespace[name].o].elems = Append(@, namespace[other])]
    /\ Completed("append")
    /\ UNCHANGED <<uiVars, drawVars, svcVars, jsVars, pyVars, namespace, order, queued, resolved, host_stdout, allocated,
                   observed, rejected, runs>>

\* print(1)
StmtPrint ==
    /\ pc = "stmt"
    /\ Write(<<"1", NL>>)
    /\ Completed("print")
    /\ UNCHANGED <<uiVars, drawVars, svcVars, jsVars, heap, next_heap_id, stdout_captured,
                   namespace, order, objs, queued, resolved, allocated, rejected, runs>>

\* name = other + 1, other bound to an int
StmtAssignSum(name, other) ==
    /\ pc = "stmt"
    /\ other \in DOMAIN namespace /\ namespace[other].k = "int" /\ namespace[other].n < 9
    /\ Bind(name, IntVal(namespace[other].n + 1))
    /\ CompletedOf("assign", other \o " + 1")
    /\ UNCHANGED <<uiVars, drawVars, svcVars, jsVars, pyVars, objs, queued, resolved, host_stdout, allocated, observed,
                   rejected, runs>>

\* print(name), name bound to an int
StmtPrintVar(name) ==
    /\ pc = "stmt"
    /\ name \in DOMAIN namespace /\ namespace[name].k = "int"
    /\ Write(<<Str(namespace[name].n), NL>>)
    /\ CompletedOf("print", name)
    /\ UNCHANGED <<uiVars, drawVars, svcVars, jsVars, heap, next_heap_id, stdout_captured,
                   namespace, order, objs, queued, resolved, allocated, rejected, runs>>

\* the message of the ImportError custom_import raises for name, "" when it
\* hands the import to real_import
CustomImport(name) ==
    IF name \in unsupported_modules
    THEN IF name = "requests"
         THEN "requests not found or not supported - Only these modules can be imported: ..."
         ELSE "Module '" \o name \o
              "' is not supported in this environment. Please use standard Python libraries only."
    ELSE ""

\* real_import(name): the message of the ModuleNotFoundError (an
\* ImportError) it raises, "" when it returns the module
RealImport(name) ==
    IF name \in InstalledModules THEN "" ELSE "No module named '" \o name \o "'"

\* import name, outside any try block: custom_import rejects the module, or
\* real_import fails, or the module is bound to its name.  The frames of
\* custom_import and of the import machinery are skipped by trace_execution.
StmtImport(name) ==
    /\ pc = "stmt"
    /\ IF CustomImport(name) # ""
       THEN /\ RaisedOf("import", name, "ImportError", CustomImport(name))
            /\ rejected' = IF rejected = 0 THEN lineno ELSE rejected
            /\ UNCHANGED <<namespace, order>>
       ELSE IF RealImport(name) # ""
       THEN /\ RaisedOf("import", name, "ImportError", RealImport(name))
            /\ UNCHANGED <<namespace, order, rejected>>
       ELSE /\ Bind(name, ModVal(name))
            /\ CompletedOf("import", name)
            /\ UNCHANGED rejected
    /\ UNCHANGED <<uiVars, drawVars, svcVars, jsVars, pyVars, objs, queued, resolved, host_stdout, allocated, observed, runs>>

\* from collections import Counter: custom_import lets collections through
\* and the class is bound to its name
StmtImportCounter ==
    /\ pc = "stmt" /\ CustomImport("collections") = "" /\ RealImport("collections") = ""
    /\ objs' = Append(objs, ClassObj("Counter"))
    /\ Bind("Counter", ObjVal(Len(objs) + 1))
    /\ CompletedOf("import", "collections")
    /\ UNCHANGED <<uiVars, drawVars, svcVars, jsVars, pyVars, queued, resolved, host_stdout, allocated, observed, rejected, runs>>

\* name = Counter([1, 1, 2]); the frames of collections are skipped by
\* trace_execution
StmtAssignCounter(name) ==
    /\ pc = "stmt"
    /\ "Counter" \in DOMAIN namespace /\ namespace["Counter"].k = "obj"
    /\ objs[namespace["Counter"].o].cls = "type"
    /\ objs' = Append(objs, CounterObj(("1" :> IntVal(2)) @@ ("2" :> IntVal(1))))
    /\ Bind(name, ObjVal(Len(objs) + 1))
    /\ Completed("assign")
    /\ UNCHANGED <<uiVars, drawVars, svcVars, jsVars, pyVars, queued, resolved, host_stdout, allocated, observed, rejected, runs>>

\* try:                         (line lineno, its line event already fired)
\*     import name              (line lineno + 1)
\* except ImportError: pass     (line lineno + 2)
\* The handler of the program catches the ImportError of custom_import; the
\* line events of the two inner lines reach trace_execution.
StmtGuardedImport(name) ==
    /\ pc = "stmt" /\ CustomImport(name) # ""
    /\ \E t \in {TraceLines("<module>", <<lineno + 1, lineno + 2>>, order, namespace, objs,
                             [es |-> execution_steps, st |-> AllocState,
                              cv |-> capturer_value])} :
          /\ execution_steps' = t.es
          /\ heap' = t.st.heap /\ next_heap_id' = t.st.next /\ allocated' = t.st.log
          /\ observed' = observed \o <<Identities(namespace), Identities(namespace)>>
    /\ rejected' = IF rejected = 0 THEN lineno + 1 ELSE rejected
    /\ pc' = "line" /\ lineno' = lineno + 3 /\ exc' = exc
    /\ executed' = Append(executed, Executed(lineno + 1, "import", name, TRUE))
    /\ UNCHANGED <<uiVars, drawVars, svcVars, jsVars, capturer_value, stdout_captured, namespace, order, objs,
                   queued, resolved, host_stdout, runs>>

\* for name in range(2): pass, on one line.  The line event of the statement
\* has fired; the jump back to the head of the loop after each iteration
\* fires a line event of the same line, with name bound to 0 and then to 1.
StmtLoop(name) ==
    /\ pc = "stmt"
    /\ LET ord == IF name \in DOMAIN namespace THEN order ELSE Append(order, name)
           ns0 == (name :> IntVal(0)) @@ namespace
           ns1 == (name :> IntVal(1)) @@ namespace
       IN \E t \in {TraceLines("<module>", <<lineno>>, ord, ns1, objs,
                        TraceLines("<module>", <<lineno>>, ord, ns0, objs,
                                   [es |-> execution_steps, st |-> AllocState,
                                    cv |-> capturer_value]))} :
            /\ execution_steps' = t.es
            /\ heap' = t.st.heap /\ next_heap_id' = t.st.next /\ allocated' = t.st.log
            /\ observed' = observed \o
                    [i \in 1..(Len(t.es) - Len(execution_steps)) |->
                        Identities(IF i = 1 THEN ns0 ELSE ns1)]
            \* the line event of the statement captured the same objects
            /\ t.st.ok
            /\ Bind(name, IntVal(1))
            /\ Completed("for")
    /\ UNCHANGED <<uiVars, drawVars, svcVars, jsVars, capturer_value, stdout_captured, objs, queued, resolved, host_stdout,
                   rejected, runs>>

\* what window.prompt returns: null when the user cancels, else the text typed
PromptNull == [kind |-> "null", text |-> ""]
PromptText(text) == [kind |-> "string", text |-> text]
\* window.prompt was not called
NotPrompted == [kind |-> "none", text |-> ""]
\* what the user of the model answers to a prompt
PromptAnswers == {PromptNull, PromptText("a")}

\* userInput || "": null and "" are falsy
OrEmpty(userInput) ==
    IF userInput.kind = "null" \/ userInput.text = "" THEN "" ELSE userInput.text

\* window.handlePythonInput(prompt) when pythonService.isCodeRunning is
\* `running` and window.prompt, if called, returns userInput
HandlePythonInputUnguarded(running, userInput) == OrEmpty(userInput)
HandlePythonInput(running, userInput) ==
    IF ~running THEN "INPUT_DISABLED" ELSE OrEmpty(userInput)

\* custom_input(""), called by the statement the interpreter is executing:
\* the line events of its frame are captured, and so are those of the write
\* calls of print(result).  w = [es, st, cv].
CustomInput(result, captured, os, w) ==
    LET n1 == <<"prompt">>
        l1 == "prompt" :> StrVal("")
        n2 == <<"prompt", "result">>
        l2 == ("result" :> StrVal(result)) @@ l1
        t1 == TraceLines("custom_input", SubSeq(CustomInputLines, 1, 2), n1, l1, os, w)
        t2 == TraceLines("custom_input", SubSeq(CustomInputLines, 3, 3), n2, l2, os, t1)
        p == WriteAll(<<result, NL>>, captured, TRUE, os, t2)
    IN TraceLines("custom_input", SubSeq(CustomInputLines, 4, 4), n2, l2, os, p)

\* name = input(), once INPUT_HANDLING_CODE has made custom_input the
\* builtin input
StmtInput(name) ==
    /\ pc = "stmt" /\ initPc = "done"
    /\ \E userInput \in IF isCodeRunning THEN PromptAnswers ELSE {NotPrompted} :
         \E result \in {HandlePythonInput(isCodeRunning, userInput)} :
         \E w \in {CustomInput(result, stdout_captured, objs,
                               [es |-> execution_steps, st |-> AllocState,
                                cv |-> capturer_value])} :
            /\ inputs' = Append(inputs, [running |-> isCodeRunning, provided |-> userInput,
                                         result |-> result])
            /\ capturer_value' = w.cv
            /\ execution_steps' = w.es
            /\ heap' = w.st.heap /\ next_heap_id' = w.st.next /\ allocated' = w.st.log
            /\ observed' = Pad(observed, Len(w.es))
            /\ host_stdout' = host_stdout \o <<result, NL>>
            /\ Bind(name, StrVal(result))
    /\ Completed("input")
    /\ UNCHANGED <<uiVars, drawVars, initPc, thrown, isAutoPlaying, jsVars, stdout_captured, objs, queued,
                   resolved, rejected, runs>>

\* {}['k']
StmtKeyError ==
    /\ pc = "stmt"
    /\ Raised("subscript", "KeyError", "'k'")
    /\ UNCHANGED <<uiVars, drawVars, svcVars, jsVars, pyVars, namespace, order, objs, queued, resolved, host_stdout, allocated,
                   observed, rejected, runs>>

\* raise Exception("boom")
StmtRaise ==
    /\ pc = "stmt"
    /\ Raised("raise", "Exception", "boom")
    /\ UNCHANGED <<uiVars, drawVars, svcVars, jsVars, pyVars, namespace, order, objs, queued, resolved, host_stdout, allocated,
                   observed, rejected, runs>>

\* exec raises SyntaxError while compiling: no line event fires
ExecSyntaxError ==
    /\ pc = "line" /\ executed = <<>> /\ lineno = 1
    /\ pc' = "exited"
    /\ exc' = [type |-> "Exception", msg |-> "invalid syntax", untraced |-> FALSE]
    /\ UNCHANGED <<uiVars, drawVars, svcVars, jsVars, pyVars, namespace, order, objs, lineno, queued, resolved, histVars>>

\* exec returns without a line event having reached trace_execution
ExecNoLineEvent ==
    /\ pc = "line" /\ executed = <<>> /\ lineno = 1
    /\ pc' = "exited"
    /\ UNCHANGED <<uiVars, drawVars, svcVars, jsVars, pyVars, interpVars, queued, resolved, histVars>>

\* exec returns after the last statement of the program
ExecReturn ==
    /\ pc = "line" /\ executed # <<>>
    /\ pc' = "exited"
    /\ UNCHANGED <<uiVars, drawVars, svcVars, jsVars, pyVars, interpVars, queued, resolved, histVars>>

(* ----------------------- run_with_trace, after exec ------------------- *)
\* the first argument of create_error_state in the except clause that
\* matches the exception (ImportError, KeyError, Exception, in this order)
ErrorType(e) ==
    IF e.type = "ImportError" THEN "Error"
    ELSE IF e.type = "KeyError" THEN "KeyError"
    ELSE "Error"

\* full_message of create_error_state
FullMessage(error_type, error_msg) == error_type \o ": " \o error_msg

\* the state create_error_state appends; its heap is a dict of its own
ErrorStateWithEntry(error_type, error_msg) ==
    [frame |-> [name |-> "Global frame", variables |-> EmptyMap],
     heapRef |-> "own",
     heap |-> (1 :> [type |-> "error", objectType |-> "", elements |-> <<>>,
                     value |-> EmptyMap, annotation |-> ""]),
     output |-> <<FullMessage(error_type, error_msg)>>, currentLine |-> 1]
ErrorState(error_type, error_msg) ==
    [frame |-> [name |-> "Global frame", variables |-> EmptyMap],
     heapRef |-> "own", heap |-> EmptyMap,
     output |-> <<FullMessage(error_type, error_msg)>>, currentLine |-> 1]

\* create_error_state(error_type, error_msg), called from the except clause
\* while the trace function is still installed (traced) or after the
\* interpreter uninstalled it: the line events of its own frame and of the
\* write calls of its print are captured, the last one with the local
\* `state`, a dict (its nested dicts are written as their str).
\* w = [es, st, cv].
CreateErrorState(error_type, error_msg, captured, traced, os, w) ==
    LET full_message == FullMessage(error_type, error_msg)
        Lines(a, b) == IF traced THEN SubSeq(CreateErrorStateLines, a, b) ELSE <<>>
        n2 == <<"error_type", "error_msg">>
        l2 == ("error_type" :> StrVal(error_type)) @@ ("error_msg" :> StrVal(error_msg))
        n3 == Append(n2, "full_message")
        l3 == ("full_message" :> StrVal(full_message)) @@ l2
        n4 == Append(n3, "state")
        os4 == Append(os, DictObj(("frame" :> StrVal("{'name': 'Global frame', 'variables': {}}"))
                                  @@ ("heap" :> StrVal("{}"))
                                  @@ ("output" :> StrVal(full_message))
                                  @@ ("currentLine" :> IntVal(1))))
        l4 == ("state" :> ObjVal(Len(os) + 1)) @@ l3
        t1 == TraceLines("create_error_state", Lines(1, 1), n2, l2, os, w)
        t2 == TraceLines("create_error_state", Lines(2, 2), n3, l3, os, t1)
        p == WriteAll(<<full_message, NL>>, captured, traced, os, t2)
        t3 == TraceLines("create_error_state", Lines(3, 7), n3, l3, os, p)
        t4 == TraceLines("create_error_state", Lines(8, 8), n4, l4, os4, t3)
    IN [t4 EXCEPT !.es = Append(@, ErrorState(error_type, error_msg))]

\* filter_system_variables(variables_dict); "__name__" and "__builtins__" are
\* the names of the model that start with "__"
FilterSystemVariables(variables) ==
    Without(variables, SystemNames \cup {"__name__", "__builtins__"})

\* the heap ids the post-processor removes from a heap map
ObjectsToRemove(h) ==
    {obj_id \in DOMAIN h :
        /\ h[obj_id].type = "dict"
        /\ h[obj_id].value # EmptyMap
        /\ (DOMAIN h[obj_id].value) \cap {"__name__", "__builtins__"} # {}}

\* obj.get("value") and "Counter" in str(obj.get("value")): the signature of
\* a function entry is the text Counter, or a key or a value of a dict entry
\* is (no other text of the model contains it)
MentionsCounter(obj) ==
    IF obj.type = "function" THEN obj.signature = "Counter"
    ELSE \E key \in DOMAIN obj.value : key = "Counter" \/ obj.value[key] = "Counter"

\* the Counter enhancement on a heap map
Annotate(h) ==
    [obj_id \in DOMAIN h |->
        IF h[obj_id].type = "Counter" \/ MentionsCounter(h[obj_id])
        THEN [h[obj_id] EXCEPT !.annotation = "imported class Counter"]
        ELSE h[obj_id]]

\* some step holds a reference to the heap map vh, and vh is not empty
\* (step.get("heap") is truthy)
SharedBy(es, vh) ==
    vh # EmptyMap /\ \E i \in 1..Len(es) : es[i].heapRef = "visualizer.heap"

\* capture_frame(sys._getframe()): the frame of run_with_trace, whose locals
\* are code, namespace and frame; namespace is a dict and gets a heap entry
CaptureOwnFrame(st, out) ==
    LET a == Alloc(st)
        entry == DictEntry(("__name__" :> "__main__") @@ ("__builtins__" :> "<builtins>"))
    IN [step |-> [frame |-> [name |-> "run_with_trace",
                             variables |-> ("code" :> Prim("<code>")) @@
                                           ("namespace" :> Ref(a.id)) @@
                                           ("frame" :> Prim("<frame>"))],
                  heapRef |-> "visualizer.heap", heap |-> EmptyMap,
                  output |-> out, currentLine |-> RunWithTraceCaptureLine],
        st |-> [a.st EXCEPT !.heap = (a.id :> entry) @@ @]]

\* post-processing, step 1 and 2: the variables and the heap of every step
StripSteps(es) ==
    [i \in 1..Len(es) |->
        [es[i] EXCEPT !.frame.variables = FilterSystemVariables(@),
                      !.heap = Without(@, ObjectsToRemove(@))]]

\* "Duplicate step if only one exists"
DuplicateSingle(es) == IF Len(es) = 1 THEN Append(es, es[1]) ELSE es

\* final_output backfill
Backfill(es, final_output) == [i \in 1..Len(es) |-> [es[i] EXCEPT !.output = final_output]]

\* to_js(execution_steps): every step with the heap map it refers to
ToJs(es, vh) ==
    [i \in 1..Len(es) |->
        [frame |-> es[i].frame,
         heap |-> IF es[i].heapRef = "visualizer.heap" THEN vh ELSE es[i].heap,
         output |-> es[i].output, currentLine |-> es[i].currentLine]]

\* run_with_trace from the return of exec to its own return: the except
\* clauses, the post-processing, to_js, and the finally clause
RunWithTraceResult ==
    LET failed == exc.type # "none"
        w0 == [es |-> execution_steps, st |-> AllocState, cv |-> capturer_value]
        \* the except clause that matches
        w1 == IF failed
              THEN CreateErrorState(ErrorType(exc), exc.msg, stdout_captured,
                                    ~exc.untraced, objs, w0)
              ELSE w0
    IN [es |-> w1.es, st |-> w1.st, cv |-> w1.cv]

PostProcess(w1) ==
    LET cv1 == w1.cv
        es1 == w1.es
        \* post-process
        es2 == StripSteps(es1)
        vh2 == IF SharedBy(es1, w1.st.heap)
               THEN Without(w1.st.heap, ObjectsToRemove(w1.st.heap)) ELSE w1.st.heap
        \* no steps captured
        st2 == [w1.st EXCEPT !.heap = vh2]
        fb == CaptureOwnFrame(st2, cv1)
        empty == Len(es2) = 0
        es3 == IF empty
               THEN <<[fb.step EXCEPT !.frame.variables = FilterSystemVariables(@)]>>
               ELSE es2
        st3 == IF empty THEN fb.st ELSE st2
        \* Counter enhancement
        es4 == [i \in 1..Len(es3) |-> [es3[i] EXCEPT !.heap = Annotate(@)]]
        vh4 == IF SharedBy(es3, st3.heap) THEN Annotate(st3.heap) ELSE st3.heap
        es5 == Backfill(es4, cv1)
        es6 == DuplicateSingle(es5)
    IN [es |-> es6, heap |-> vh4, next |-> st3.next, log |-> st3.log, cv |-> cv1]

RunWithTraceFinish ==
    /\ pc = "exited"
    /\ \E r \in {PostProcess(RunWithTraceResult)} :
          /\ capturer_value' = r.cv
          /\ host_stdout' = IF exc.type # "none"
                            THEN host_stdout \o <<FullMessage(ErrorType(exc), exc.msg), NL>>
                            ELSE host_stdout
          /\ execution_steps' = r.es
          /\ heap' = r.heap /\ next_heap_id' = r.next /\ allocated' = r.log
          /\ observed' = Pad(observed, Len(r.es))
          /\ resolved' = Append(resolved, ToJs(r.es, r.heap))
    /\ stdout_captured' = FALSE
    /\ pc' = "returned"
    /\ UNCHANGED <<uiVars, drawVars, svcVars, jsVars, interpVars, queued, executed, rejected, runs>>

(* ------------------------- runCode, after the await ------------------- *)
\* the names processExecutionSteps looks for among a step's variables
InternalNames == {"_pyodide_core", "OutputCapturer", "capturer", "trace_execution",
                  "run_with_trace"}

\* the filter of processExecutionSteps (frame and frame.variables are
\* objects, hence truthy, in every step to_js returns)
IsRelevant(step) ==
    /\ (DOMAIN step.frame.variables) \cap InternalNames = {}
    /\ step.frame.name # "write"

\* String(value) of a string
JsString(value) == value

\* formatListElements(steps)
FormatListElements(ss) ==
    [i \in 1..Len(ss) |->
        [ss[i] EXCEPT !.heap =
            [heapId \in DOMAIN @ |->
                IF @[heapId].type = "list"
                THEN [@[heapId] EXCEPT !.elements =
                        [j \in 1..Len(@) |->
                            IF @[j].type = "primitive"
                            THEN [@[j] EXCEPT !.value = JsString(@)] ELSE @[j]]]
                ELSE @[heapId]]]]

\* runCode(code) from the resolution of runPythonAsync: processExecutionSteps
\* when steps were returned, then the finally clause.  The promises resolve
\* in the order of the calls; JavaScript does not run while Python does.
RunCodeFinish ==
    /\ pc \in {"idle", "returned"} /\ resolved # <<>>
    /\ LET steps == Head(resolved)
           relevantSteps == SelectSeq(steps, IsRelevant)
       IN IF Len(steps) > 0 /\ Len(relevantSteps) > 0
          THEN /\ executionSteps' = FormatListElements(relevantSteps)
               /\ executionState' = [FormatListElements(relevantSteps)[1]
                                        EXCEPT !.output = steps[Len(steps)].output]
          ELSE UNCHANGED <<executionSteps, executionState>>
    /\ isCodeRunning' = FALSE /\ isRunning' = FALSE
    /\ resolved' = Tail(resolved)
    /\ pc' = IF Len(resolved) = 1 THEN "idle" ELSE pc
    /\ UNCHANGED <<uiVars, drawVars, svcVars, pyodide, isInitialized, error, currentStepIndex, pyVars,
                   interpVars, queued, histVars>>

(* --------------------------- specification ---------------------------- *)
Stmt ==
    \/ \E name \in VarNames : StmtAssignInt(name)
    \/ \E name \in ListNames : StmtAssignList(name)
    \/ \E key \in {"k", "__name__"} : StmtAssignDict("y", key)
    \/ StmtAlias("y", "x")
    \/ StmtImportCounter
    \/ StmtAssignCounter("x")
    \/ \E name \in ListNames : StmtAppend(name)
    \/ \E name, other \in ListNames : StmtAppendRef(name, other)
    \/ StmtPrint
    \/ StmtAssignSum("y", "x")
    \/ StmtPrintVar("y")
    \/ \E name \in ImportedModules : StmtImport(name)
    \/ StmtGuardedImport("numpy")
    \/ StmtLoop("x")
    \/ StmtKeyError
    \/ StmtRaise

Next ==
    \/ HandleVisualize
    \/ RunWithTraceBegin
    \/ LineEvent
    \/ Stmt
    \/ ExecSyntaxError
    \/ ExecNoLineEvent
    \/ ExecReturn
    \/ RunWithTraceFinish
    \/ RunCodeFinish

Spec == Init /\ [][Next]_vars

(* ------------------------------ initialize ---------------------------- *)
\* initialize() up to its first await: the store is not initialised
Initialize ==
    /\ initPc = "constructed" /\ ~isInitialized
    /\ isRunning' = TRUE
    /\ initPc' = "loading"
    /\ UNCHANGED <<uiVars, drawVars, pyodide, isCodeRunning, isInitialized, error, executionSteps,
                   currentStepIndex, executionState, pyVars, interpVars, pc, queued, resolved,
                   histVars, thrown, inputs, isAutoPlaying>>

\* loadPyodide resolves: this.pyodide is set and the setup scripts are
\* handed to runPythonAsync
LoadPyodideResolved ==
    /\ initPc = "loading"
    /\ pyodide' = TRUE
    /\ initPc' = "scripts"
    /\ UNCHANGED <<uiVars, drawVars, isCodeRunning, isInitialized, isRunning, error, executionSteps,
                   currentStepIndex, executionState, pyVars, interpVars, pc, queued, resolved,
                   histVars, thrown, inputs, isAutoPlaying>>

\* loadPyodide rejects: the catch and the finally clause of initialize
LoadPyodideRejected ==
    /\ initPc = "loading"
    /\ error' = "failed to load Pyodide" /\ isRunning' = FALSE
    /\ initPc' = "failedLoad"
    /\ UNCHANGED <<uiVars, drawVars, pyodide, isCodeRunning, isInitialized, executionSteps,
                   currentStepIndex, executionState, pyVars, interpVars, pc, queued, resolved,
                   histVars, thrown, inputs, isAutoPlaying>>

\* PYTHON_SETUP_CODE, VISUALIZER_STATE_CODE, OUTPUT_AND_TRACING_CODE (which
\* ends with sys.stdout = capturer) and RUN_WITH_TRACE_CODE have run.  The
\* four scripts are one step of the model.
SetupScriptsRun ==
    /\ initPc = "scripts" /\ pc \in {"idle", "returned"}
    /\ stdout_captured' = TRUE
    /\ initPc' = "input"
    /\ UNCHANGED <<uiVars, drawVars, jsVars, heap, next_heap_id, capturer_value, execution_steps,
                   interpVars, pc, queued, resolved, histVars, thrown, inputs, isAutoPlaying>>

\* runPythonAsync rejects for the k-th of these four scripts: the catch and
\* the finally clause of initialize.  run_with_trace is not defined; the
\* fourth script runs after sys.stdout = capturer.
SetupScriptRejected ==
    /\ initPc = "scripts" /\ pc \in {"idle", "returned"}
    /\ \E k \in 1..4 : stdout_captured' = (k = 4)
    /\ error' = "setup script failed" /\ isRunning' = FALSE
    /\ initPc' = "failedScripts"
    /\ UNCHANGED <<uiVars, drawVars, pyodide, isCodeRunning, isInitialized, executionSteps,
                   currentStepIndex, executionState, heap, next_heap_id, capturer_value,
                   execution_steps, interpVars, pc, queued, resolved, histVars, thrown, inputs,
                   isAutoPlaying>>

\* setupInputHandler has installed window.handlePythonInput and
\* INPUT_HANDLING_CODE has run (builtins.input = custom_input): the rest of
\* initialize, its finally clause included
SetupScriptsDone ==
    /\ initPc = "input" /\ pc \in {"idle", "returned"}
    /\ isInitialized' = TRUE /\ isRunning' = FALSE
    /\ initPc' = "done"
    /\ UNCHANGED <<uiVars, drawVars, pyodide, isCodeRunning, error, executionSteps, currentStepIndex,
                   executionState, pyVars, interpVars, pc, queued, resolved, histVars, thrown,
                   inputs, isAutoPlaying>>

\* runPythonAsync rejects for INPUT_HANDLING_CODE: the catch and the finally
\* clause of initialize.  run_with_trace is defined.
InputHandlingRejected ==
    /\ initPc = "input" /\ pc \in {"idle", "returned"}
    /\ error' = "setup script failed" /\ isRunning' = FALSE
    /\ initPc' = "failedInput"
    /\ UNCHANGED <<uiVars, drawVars, pyodide, isCodeRunning, isInitialized, executionSteps,
                   currentStepIndex, executionState, pyVars, interpVars, pc, queued, resolved,
                   histVars, thrown, inputs, isAutoPlaying>>

\* a run_with_trace call that runs before the setup scripts have defined
\* run_with_trace: Python raises NameError, runPythonAsync rejects, and the
\* catch and the finally clause of runCode run
RunPythonRejected ==
    /\ initPc \in {"scripts", "failedScripts"} /\ queued > 0 /\ pc \in {"idle", "returned"}
    /\ queued' = queued - 1
    /\ error' = "NameError: name 'run_with_trace' is not defined"
    /\ isCodeRunning' = FALSE /\ isRunning' = FALSE
    /\ UNCHANGED <<uiVars, drawVars, svcVars, pyodide, isInitialized, executionSteps, currentStepIndex,
                   executionState, pyVars, interpVars, pc, resolved, histVars>>

(* ------------------- PythonTutorViz: the rendering effect ------------- *)
\* the message of the ImportError of `import requests`, the one text of the
\* model that includes "not found or not supported"; no text of the model
\* includes "ImportError"
IncludesImportError(text) == text = FullMessage("Error", CustomImport("requests"))

\* detectImportError(executionState); executionState has no `frames`
detectImportError(state) ==
    \/ \E i \in 1..Len(state.output) : IncludesImportError(state.output[i])
    \/ "error_type" \in DOMAIN state.frame.variables

\* the effect has something to change: React runs it after the render that
\* follows the change of executionState, ahead of the next event of the user
EffectPending == detectImportError(executionState) /\ executionSteps # <<>>

\* the effect of PythonTutorViz on a new executionState that shows an import
\* error: setError and setExecutionSteps([])
RenderingEffect ==
    /\ pc \in {"idle", "returned"}
    /\ EffectPending
    /\ error' = "This code contains imports that aren't supported in the browser environment. Try modifying the code to use built-in modules only."
    /\ executionSteps' = <<>>
    /\ UNCHANGED <<uiVars, drawVars, svcVars, pyodide, isCodeRunning, isInitialized, isRunning,
                   currentStepIndex, executionState, pyVars, interpVars, pc, queued, resolved,
                   histVars>>

(* --------------------------- ExecutionControls ------------------------ *)
\* the store as the store actions see it
Store ==
    [isInitialized |-> isInitialized, isRunning |-> isRunning, error |-> error,
     executionSteps |-> executionSteps, currentStepIndex |-> currentStepIndex,
     executionState |-> executionState]

\* const totalSteps = executionSteps?.length || 1
totalSteps == IF Len(executionSteps) = 0 THEN 1 ELSE Len(executionSteps)

\* the controls handle an event: no Python code is running and no effect is
\* pending
ControlsIdle == pc \in {"idle", "returned"} /\ ~EffectPending

\* executionState.isRunning is undefined: the flags of the controls
isAtStart == currentStepIndex = 0 \/ Len(executionSteps) = 0
isAtEnd == currentStepIndex >= totalSteps - 1 \/ Len(executionSteps) = 0
isPlayDisabled == isAtEnd \/ Len(executionSteps) = 0
isSliderDisabled == Len(executionSteps) = 0

\* a handler of the controls calls setCurrentStepIndex(index)
CallSetCurrentStepIndex(index) ==
    /\ LET st == SetCurrentStepIndex(Store, index)
       IN /\ currentStepIndex' = st.currentStepIndex
          /\ executionState' = st.executionState
    /\ UNCHANGED <<uiVars, drawVars, pyodide, isCodeRunning, isInitialized, isRunning, error,
                   executionSteps, pyVars, interpVars, pc, queued, resolved, histVars, initPc,
                   thrown, inputs>>

\* the First Step button
handleFirst ==
    /\ ControlsIdle /\ ~isAtStart
    /\ isAutoPlaying' = FALSE
    /\ CallSetCurrentStepIndex(0)

\* the Previous Step button (currentStepIndex > 0 when it is enabled)
handlePrev ==
    /\ ControlsIdle /\ ~isAtStart
    /\ isAutoPlaying' = FALSE
    /\ currentStepIndex > 0
    /\ CallSetCurrentStepIndex(currentStepIndex - 1)

\* the Next Step button (currentStepIndex < totalSteps - 1 when it is enabled)
handleNext ==
    /\ ControlsIdle /\ ~isAtEnd
    /\ isAutoPlaying' = FALSE
    /\ currentStepIndex < totalSteps - 1
    /\ CallSetCurrentStepIndex(currentStepIndex + 1)

\* the Last Step button
handleLast ==
    /\ ControlsIdle /\ ~isAtEnd
    /\ isAutoPlaying' = FALSE
    /\ CallSetCurrentStepIndex(totalSteps - 1)

\* the slider, whose range is 0..totalSteps - 1, moved to newIndex
handleSliderChange ==
    /\ ControlsIdle /\ ~isSliderDisabled
    /\ isAutoPlaying' = FALSE
    /\ \E newIndex \in 0..(totalSteps - 1) :
          /\ newIndex # currentStepIndex
          /\ newIndex >= 0 /\ newIndex < totalSteps
          /\ CallSetCurrentStepIndex(newIndex)

\* the play button
toggleAutoPlay ==
    /\ ControlsIdle /\ ~isPlayDisabled
    /\ isAutoPlaying' = ~isAutoPlaying
    /\ UNCHANGED <<uiVars, traceVarsButControls, drawVars>>

\* the auto-play effect: its timer fires and steps forward, or, at the end
\* of the trace, it stops auto-play
AutoPlay ==
    /\ ControlsIdle /\ isAutoPlaying
    /\ IF currentStepIndex < totalSteps - 1
       THEN /\ CallSetCurrentStepIndex(currentStepIndex + 1)
            /\ UNCHANGED isAutoPlaying
       ELSE /\ isAutoPlaying' = FALSE
            /\ UNCHANGED <<uiVars, traceVarsButControls, drawVars>>

(* ------------------------ the store and its controls ------------------ *)
\* the programs run from the editor
StmtStore ==
    \/ StmtAssignInt("x")
    \/ StmtImport("requests")
    \/ StmtRaise

NextStore ==
    \/ HandleVisualize
    \/ RunWithTraceBegin
    \/ LineEvent
    \/ StmtStore
    \/ ExecReturn
    \/ RunWithTraceFinish
    \/ RunCodeFinish
    \/ handleFirst
    \/ handlePrev
    \/ handleNext
    \/ handleLast
    \/ handleSliderChange
    \/ toggleAutoPlay
    \/ AutoPlay
    \/ RenderingEffect

\* the application once initialised: runs started with the Run Code button,
\* the controls, the rendering effect
SpecStore == Init /\ [][NextStore]_vars

(* ----------------------------- auto-play ------------------------------ *)
\* the Run Code button pressed while auto-play is off
RunWhilePaused == ~isAutoPlaying /\ HandleVisualize

\* the application with a user who leaves the Run Code button alone while
\* auto-play is on
NextPlayback ==
    \/ RunWhilePaused
    \/ RunWithTraceBegin
    \/ LineEvent
    \/ StmtStore
    \/ ExecReturn
    \/ RunWithTraceFinish
    \/ RunCodeFinish
    \/ handleFirst
    \/ handlePrev
    \/ handleNext
    \/ handleLast
    \/ handleSliderChange
    \/ toggleAutoPlay
    \/ AutoPlay
    \/ RenderingEffect

\* the timer of the auto-play effect fires when due, and React runs the
\* effects of a render
SpecPlayback ==
    Init /\ [][NextPlayback]_vars /\ WF_vars(AutoPlay) /\ WF_vars(RenderingEffect)

(* ------------------------ the service and its callers ----------------- *)
\* the programs the callers of the service pass to runCode
StmtService == StmtInput("x")

NextService ==
    \/ Initialize
    \/ LoadPyodideResolved
    \/ LoadPyodideRejected
    \/ SetupScriptsRun
    \/ SetupScriptsDone
    \/ RunCodeStart
    \/ RunPythonRejected
    \/ RunWithTraceBegin
    \/ LineEvent
    \/ StmtService
    \/ ExecReturn
    \/ RunWithTraceFinish
    \/ RunCodeFinish

\* any caller of the service, from the state after construction
SpecService == InitService /\ [][NextService]_vars

(* --------------------- initialize and its failures -------------------- *)
\* the program the callers pass to runCode
StmtInit == StmtAssignInt("y")

NextInit ==
    \/ Initialize
    \/ LoadPyodideResolved
    \/ LoadPyodideRejected
    \/ SetupScriptsRun
    \/ SetupScriptRejected
    \/ SetupScriptsDone
    \/ InputHandlingRejected
    \/ RunCodeStart
    \/ RunPythonRejected
    \/ RunWithTraceBegin
    \/ LineEvent
    \/ StmtInit
    \/ ExecReturn
    \/ RunWithTraceFinish
    \/ RunCodeFinish

\* any caller of the service while initialize() runs, succeeds or fails
SpecInit == InitService /\ [][NextInit]_vars

(* ------------------- PythonTutorViz: drawing a list ------------------- *)
\* The recursion drawList -> renderListElement -> renderReferenceElement ->
\* drawList, as the call stack it builds: the last frame of drawStack is the
\* drawList call that is running, i the index of the element its forEach
\* handles next.

\* the descriptors a drawn list holds: a primitive or a reference to a heap id
DrawElements == {Prim("1")} \cup {Ref(i) : i \in 1..DrawIds}

\* the heaps handed to the renderer: every id holds a list or a dict; a list
\* may refer to any id, itself included
DrawHeaps ==
    [1..DrawIds ->
        {ListEntry("list", els) : els \in UNION {[1..n -> DrawElements] : n \in 0..MaxDrawElems}}
        \cup {DictEntry("k" :> "1")}]

\* what renderReferenceElement draws for the referenced object at `level`
RenderReferenceElementUncapped(heapObj, level) ==
    IF heapObj.type = "list" THEN "drawList"
    ELSE IF heapObj.type = "dict" THEN "drawDict"
    ELSE "none"
RenderReferenceElement(heapObj, level) ==
    IF level < MaxLevel
    THEN IF heapObj.type = "list" THEN "drawList"
         ELSE IF heapObj.type = "dict" THEN "drawDict"
         ELSE "none"
    ELSE "none"

\* renderHeapObject(g, obj, pos, heap) for the object a frame variable
\* refers to (id1): a list is drawn by drawList at the default level 0
RenderHeapObject ==
    /\ drawPhase = "idle" /\ drawHeap # EmptyMap
    /\ drawPhase' = "drawing"
    /\ IF drawHeap[1].type = "list"
       THEN /\ drawStack' = <<[elements |-> drawHeap[1].elements, i |-> 1, level |-> 0]>>
            /\ drawCalls' = drawCalls + 1
       ELSE UNCHANGED <<drawStack, drawCalls>>
    /\ UNCHANGED <<uiVars, traceVars, drawHeap, omitted>>

\* one iteration of the forEach of drawList: renderListElement on element i
RenderListElement ==
    /\ drawPhase = "drawing" /\ drawStack # <<>>
    /\ LET top == Len(drawStack)
           f == drawStack[top]
       IN /\ f.i <= Len(f.elements)
          /\ LET element == f.elements[f.i]
                 next == [drawStack EXCEPT ![top].i = f.i + 1]
             IN IF element.type = "reference" /\ element.id # 0 /\ element.id \in DOMAIN drawHeap
                THEN LET heapObj == drawHeap[element.id]
                         what == RenderReferenceElement(heapObj, f.level)
                     IN /\ IF what = "drawList"
                           THEN /\ drawStack' = Append(next, [elements |-> heapObj.elements,
                                                              i |-> 1, level |-> f.level + 1])
                                /\ drawCalls' = drawCalls + 1
                           ELSE /\ drawStack' = next
                                /\ drawCalls' = drawCalls
                        /\ omitted' = (omitted \/ (what = "none" /\ heapObj.type \in {"list", "dict"}))
                ELSE /\ drawStack' = next
                     /\ UNCHANGED <<drawCalls, omitted>>
    /\ UNCHANGED <<uiVars, traceVars, drawHeap, drawPhase>>

\* the forEach of the running drawList is over: the call returns
DrawListReturn ==
    /\ drawPhase = "drawing" /\ drawStack # <<>>
    /\ drawStack[Len(drawStack)].i > Len(drawStack[Len(drawStack)].elements)
    /\ drawStack' = SubSeq(drawStack, 1, Len(drawStack) - 1)
    /\ UNCHANGED <<uiVars, traceVars, drawHeap, drawPhase, drawCalls, omitted>>

\* renderHeapObject returns
RenderHeapObjectReturn ==
    /\ drawPhase = "drawing" /\ drawStack = <<>>
    /\ drawPhase' = "done"
    /\ UNCHANGED <<uiVars, traceVars, drawHeap, drawStack, drawCalls, omitted>>

InitDraw ==
    /\ InitTrace /\ PanelsIdle
    /\ drawHeap \in DrawHeaps
    /\ drawStack = <<>> /\ drawPhase = "idle" /\ drawCalls = 0 /\ omitted = FALSE

NextDraw ==
    \/ RenderHeapObject
    \/ RenderListElement
    \/ DrawListReturn
    \/ RenderHeapObjectReturn

SpecDraw == InitDraw /\ [][NextDraw]_vars

\* the drawing is fair: a call that can proceed does
FairSpecDraw == SpecDraw /\ WF_vars(NextDraw)

(* ------------------------------ the claims ---------------------------- *)
\* the raw snapshots; observed[i] is not empty only when capture_frame took
\* snapshot i from the user's module frame
Captures == 1..Len(observed)

\* the raw snapshots capture_frame took from the user's module frame
ModuleCaptures ==
    {i \in 1..Len(execution_steps) :
        /\ execution_steps[i].frame.name = "Global frame"
        /\ execution_steps[i].heapRef = "visualizer.heap"}

\* the reference descriptor of name in capture i
Desc(i, name) == execution_steps[i].frame.variables[name]

\* name is bound to a live object in capture i
BoundToObject(i, name) == name \in DOMAIN observed[i] /\ observed[i][name] # 0

\* a run has ended and its result is in the store
RunEnded == pc = "idle" /\ ~Unresolved /\ runs > 0

\* the steps the latest call of run_with_trace returned, in flight to runCode
steps == IF resolved = <<>> THEN <<>> ELSE resolved[Len(resolved)]

\* C1: for every run the snapshot sequence handed to the store has at least
\* two snapshots.
C1_AtLeastTwoSnapshots == RunEnded => Len(executionSteps) >= 2

\* C2: every snapshot of the processed trace carries the same output, the
\* complete output the run wrote.
C2_OutputIsFinalOutput ==
    RunEnded => \A i \in 1..Len(executionSteps) : executionSteps[i].output = host_stdout

\* C3: a name bound to the same live list at two successive captures has the
\* same heap id in both snapshots.
C3_SameListSameId ==
    \A i \in Captures : \A name \in VarNames :
        (/\ i + 1 \in Captures
         /\ BoundToObject(i, name) /\ BoundToObject(i + 1, name)
         /\ observed[i][name] = observed[i + 1][name]
         /\ objs[observed[i][name]].cls = "list")
        => Desc(i, name).id = Desc(i + 1, name).id

\* C4: two names of one frame bound to the same live object have the same
\* heap id in a snapshot.
C4_AliasesShareEntry ==
    \A i \in Captures : \A n1, n2 \in VarNames :
        (/\ BoundToObject(i, n1) /\ BoundToObject(i, n2)
         /\ observed[i][n1] = observed[i][n2])
        => Desc(i, n1).id = Desc(i, n2).id

\* C5: in a run get_heap_id returns 1, 2, 3, ... in this order, starting at 1
\* in every run, and the references to distinct live instances (of equal
\* contents or not), in one capture or in two, carry distinct heap ids.
C5_HeapIdsSequential ==
    /\ allocated = [i \in 1..Len(allocated) |-> i]
    /\ next_heap_id = Len(allocated) + 1
    /\ \A i, j \in Captures : \A n1, n2 \in VarNames :
        (/\ BoundToObject(i, n1) /\ BoundToObject(j, n2)
         /\ observed[i][n1] # observed[j][n2])
        => Desc(i, n1).id # Desc(j, n2).id

\* C5 witness: in the second run of the session two distinct lists of equal
\* contents are captured in one snapshot
C5_Witness ==
    /\ runs = 2
    /\ \E i \in Captures :
        /\ BoundToObject(i, "x") /\ BoundToObject(i, "y")
        /\ observed[i]["x"] # observed[i]["y"]
        /\ objs[observed[i]["x"]] = objs[observed[i]["y"]]
        /\ objs[observed[i]["x"]].cls = "list"
        /\ Desc(i, "x").id # Desc(i, "y").id
    /\ allocated = <<1, 2, 3>>

\* the type of a heap id is the same in all the snapshots of ss that hold it
TypesStable(ss) ==
    \A i, j \in 1..Len(ss) : \A obj_id \in (DOMAIN ss[i].heap) \cap (DOMAIN ss[j].heap) :
        ss[i].heap[obj_id].type = ss[j].heap[obj_id].type

\* C6: in the trace run_with_trace returns and in the trace the store holds,
\* a heap id has the same type in every snapshot in which it appears.
C6_HeapTypeStable == TypesStable(steps) /\ TypesStable(executionSteps)

\* C6 witness: a returned trace with an error snapshot after three captures
\* that share a heap id, the post-processor having removed an entry
C6_Witness ==
    /\ pc = "returned" /\ exc.type # "none" /\ Len(steps) >= 4
    /\ (DOMAIN steps[1].heap) \cap (DOMAIN steps[2].heap) # {}
    /\ steps[Len(steps)].heap = EmptyMap
    /\ \E obj_id \in 1..(next_heap_id - 1) : obj_id \notin DOMAIN heap

\* the snapshot C8 describes, with the output out
C8_ErrorSnapshot(out) ==
    [frame |-> [name |-> "Global frame", variables |-> EmptyMap], heap |-> EmptyMap,
     output |-> out, currentLine |-> 1]

\* C8: when an exception escaped user code, the returned trace holds the
\* synthetic error snapshot and nothing else, its output being
\* "<ErrorKind>: <message>" (the line break print puts after the message is
\* not held against the claim).
C8_ErrorSnapshotAlone ==
    (pc = "returned" /\ exc.type # "none")
    => LET msg == FullMessage(ErrorType(exc), exc.msg)
       IN \A i \in 1..Len(steps) :
            steps[i] \in {C8_ErrorSnapshot(<<msg>>), C8_ErrorSnapshot(<<msg, NL>>)}

\* C9: when a run fails on a rejected import, no line ahead of the import was
\* captured, no statement ahead of it was executed and nothing was written
\* ahead of the error.
C9_ImportFailsFast ==
    (exc.type = "ImportError" /\ rejected # 0) =>
        /\ \A i \in ModuleCaptures : execution_steps[i].currentLine >= rejected
        /\ \A i \in 1..Len(executed) : executed[i].line >= rejected
        /\ \A i \in 1..Len(host_stdout) : host_stdout[i] # "1"

LastExecuted == executed[Len(executed)]

C11_OnlyAllowListImported ==
    \A i \in 1..Len(executed) :
        (executed[i].kind = "import" /\ executed[i].arg \notin AllowList) => executed[i].raised

\* C12: in the returned trace a name bound to a collections.Counter instance
\* refers to a heap entry of type "Counter" with the stringified counts and
\* a non-empty annotation, and the snapshot's heap holds exactly one entry of
\* type "Counter".
C12_CounterEntry ==
    pc = "returned" =>
        \A i \in 1..Len(observed) : \A name \in VarNames :
            (BoundToObject(i, name) /\ objs[observed[i][name]].cls = "Counter") =>
                LET d == steps[i].frame.variables[name]
                    h == steps[i].heap
                IN /\ d.type = "reference" /\ d.id \in DOMAIN h
                   /\ h[d.id].type = "Counter"
                   /\ h[d.id].value = ("1" :> "2") @@ ("2" :> "1")
                   /\ h[d.id].annotation # ""
                   /\ Cardinality({obj_id \in DOMAIN h : h[obj_id].type = "Counter"}) = 1

\* exec returned: the program ran to its end and no statement raised
RanToEnd ==
    /\ pc = "exited" /\ exc.type = "none" /\ executed # <<>>
    /\ \A i \in 1..Len(executed) : ~executed[i].raised

\* the program x = 5; y = x + 1; print(y) on three lines
ExampleProgram ==
    executed = <<Executed(1, "assign", "", FALSE), Executed(2, "assign", "x + 1", FALSE),
                 Executed(3, "print", "y", FALSE)>>
    /\ order = <<"x", "y">>

\* C13: the raw trace of a straight-line top-level program holds one snapshot
\* per executed line, of the top-level frame, in execution order; the
\* processed trace of x = 5; y = x + 1; print(y) has at least two snapshots,
\* the first two of lines 1 and 2, the last one shows x = "5" and y = "6",
\* and every snapshot's output is "6\n".
C13_StraightLineTrace ==
    /\ RanToEnd =>
          /\ Len(execution_steps) = Len(executed)
          /\ \A i \in 1..Len(executed) :
                /\ execution_steps[i].frame.name = "Global frame"
                /\ execution_steps[i].currentLine = executed[i].line
    /\ (RunEnded /\ ExampleProgram) =>
          /\ Len(executionSteps) >= 2
          /\ executionSteps[1].currentLine = 1 /\ executionSteps[2].currentLine = 2
          /\ LET last == executionSteps[Len(executionSteps)].frame.variables
             IN /\ "x" \in DOMAIN last /\ last["x"] = Prim("5")
                /\ "y" \in DOMAIN last /\ last["y"] = Prim("6")
          /\ \A i \in 1..Len(executionSteps) : executionSteps[i].output = <<"6", NL>>

\* exec is running, or has just returned to run_with_trace
InExec == pc \in {"line", "stmt", "exited"}

\* C19: in every run of a session every text the program writes is appended
\* to capturer.value as well as to the host stream, and the output of the
\* snapshots run_with_trace returns is the complete output of the program.
C19_OutputCapturedInEveryRun ==
    /\ InExec => capturer_value = host_stdout
    /\ (pc = "returned" /\ exc.type = "none") =>
          \A i \in 1..Len(steps) : steps[i].output = host_stdout

\* C20: the raw trace never holds two consecutive snapshots of the top-level
\* frame with the same currentLine.
C20_NoConsecutiveSameLine ==
    InExec =>
        \A i \in ModuleCaptures :
            i + 1 \in ModuleCaptures =>
                execution_steps[i].currentLine # execution_steps[i + 1].currentLine

\* C14: setCurrentStepIndex(index) with index outside [0, len(executionSteps))
\* leaves the whole store unchanged; with index in range it sets
\* currentStepIndex to index and executionState to the frame, heap and
\* currentLine of step index with the output of the last step, and nothing
\* else.  Checked on every store the application reaches.
C14_SetCurrentStepIndex ==
    \A index \in -1..(Len(executionSteps) + 1) :
        LET r == SetCurrentStepIndex(Store, index)
        IN IF index < 0 \/ index >= Len(executionSteps)
           THEN r = Store
           ELSE /\ r.currentStepIndex = index
                /\ r.executionState.frame = executionSteps[index + 1].frame
                /\ r.executionState.heap = executionSteps[index + 1].heap
                /\ r.executionState.currentLine = executionSteps[index + 1].currentLine
                /\ r.executionState.output = executionSteps[Len(executionSteps)].output
                /\ DOMAIN r.executionState = {"frame", "heap", "currentLine", "output"}
                /\ r.executionSteps = executionSteps
                /\ r.isInitialized = isInitialized /\ r.isRunning = isRunning
                /\ r.error = error

\* a control moved the store to a step other than the first, whose snapshot
\* differs from the first one, after a run whose reset called
\* setCurrentStepIndex(0) on the empty trace
C14_Witness ==
    /\ runs > 0 /\ ~Unresolved
    /\ currentStepIndex > 0 /\ currentStepIndex < Len(executionSteps)
    /\ executionState.frame = executionSteps[currentStepIndex + 1].frame
    /\ executionState.currentLine = executionSteps[currentStepIndex + 1].currentLine
    /\ executionState.currentLine # executionSteps[1].currentLine

\* C15: whenever executionSteps is not empty, currentStepIndex is an index of
\* it: 0 <= currentStepIndex <= len(executionSteps) - 1.
C15_IndexInRange ==
    executionSteps # <<>> =>
        (currentStepIndex >= 0 /\ currentStepIndex <= Len(executionSteps) - 1)

\* C16: a runCode call made while an earlier call is unresolved changes
\* neither the store nor the flags and schedules no execution; no input
\* request of a run is answered with the sentinel.
C16_OverlappingCallRejected ==
    /\ [][(runs' # runs /\ Unresolved) =>
            UNCHANGED <<executionSteps, currentStepIndex, executionState, error, queued,
                        isCodeRunning, isRunning>>]_vars
    /\ [](\A i \in 1..Len(inputs) : inputs[i].result # "INPUT_DISABLED")

\* C17: handlePythonInput returns "INPUT_DISABLED" without prompting when
\* isCodeRunning is false; when it is true it returns what the prompt
\* returned, and "" when the user cancelled the prompt.
C17_InputSentinel ==
    \A i \in 1..Len(inputs) :
        IF ~inputs[i].running
        THEN inputs[i].result = "INPUT_DISABLED" /\ inputs[i].provided = NotPrompted
        ELSE /\ inputs[i].provided \in PromptAnswers
             /\ inputs[i].result =
                    (IF inputs[i].provided = PromptNull THEN "" ELSE inputs[i].provided.text)

\* one run asked for input without an active run and got the sentinel, and
\* a run asked while active: the user answered once and cancelled once
C17_Witness ==
    /\ \E i \in 1..Len(inputs) : ~inputs[i].running /\ inputs[i].result = "INPUT_DISABLED"
    /\ \E i \in 1..Len(inputs) : inputs[i].running /\ inputs[i].provided = PromptNull
    /\ \E i \in 1..Len(inputs) : inputs[i].running /\ inputs[i].result = "a"

\* C18: no call of runCode throws or returns a rejected promise.
C18_RunCodeNeverThrows == ~thrown

\* C21: the reset of every runCode call that gets past the Pyodide test
\* leaves executionSteps empty, currentStepIndex 0 and executionState at its
\* default; and when processExecutionSteps installs a non-empty trace the
\* store shows step 0: currentStepIndex is 0 and the frame, heap and
\* currentLine of executionState are those of executionSteps[currentStepIndex].
C21_ResetThenStepZero ==
    [][/\ (runs' # runs /\ pyodide) =>
            /\ executionSteps' = <<>> /\ currentStepIndex' = 0
            /\ executionState' = DefaultExecutionState
       /\ (Len(resolved') < Len(resolved) /\ executionSteps' # <<>>) =>
            /\ currentStepIndex' = 0
            /\ executionState'.frame = executionSteps'[currentStepIndex' + 1].frame
            /\ executionState'.heap = executionSteps'[currentStepIndex' + 1].heap
            /\ executionState'.currentLine = executionSteps'[currentStepIndex' + 1].currentLine]_vars

\* the steps of the store and the step it shows, as the renderer gets them
Shown == {executionState} \cup
         {SetCurrentStepIndex(Store, index).executionState :
             index \in 0..(Len(executionSteps) - 1)}

\* C22: after a run that ended in an error snapshot the renderer shows the
\* error panel (and draws nothing else) for the step the store shows and for
\* every step navigation can select; after a run without error it shows the
\* panel for none of them.
C22_ErrorPanel ==
    RunEnded =>
        IF exc.type # "none"
        THEN \A state \in Shown : detectImportError(state)
        ELSE \A state \in Shown : ~detectImportError(state)

\* initialize() failed: at loadPyodide, at one of the first four setup
\* scripts, or at INPUT_HANDLING_CODE
InitFailed == initPc \in {"failedLoad", "failedScripts", "failedInput"}

\* C23: when initialize fails store.error is set and isInitialized is false;
\* from then on isInitialized stays false, store.error stays set, and no
\* statement of a user program is executed, whatever runCode calls are made.
C23_FailedInitBlocksRuns ==
    /\ [](InitFailed => (error # "" /\ ~isInitialized))
    /\ [][InitFailed => (error' # "" /\ ~isInitialized' /\ Len(executed') <= Len(executed))]_vars

\* the heap ids a processed snapshot refers to: from the variables of its
\* frame and from the elements of the lists of its heap
ReferencedIds(step) ==
    {step.frame.variables[name].id :
        name \in {n \in DOMAIN step.frame.variables :
                     step.frame.variables[n].type = "reference"}}
    \cup UNION {{step.heap[id].elements[j].id :
                    j \in {k \in 1..Len(step.heap[id].elements) :
                              step.heap[id].elements[k].type = "reference"}} :
                id \in DOMAIN step.heap}

\* C24: in every snapshot run_with_trace returned, and in every snapshot the
\* store holds, each reference names an id of that snapshot's heap.
C24_ReferencesResolve ==
    /\ \A i \in 1..Len(steps) : ReferencedIds(steps[i]) \subseteq DOMAIN steps[i].heap
    /\ \A i \in 1..Len(executionSteps) :
            ReferencedIds(executionSteps[i]) \subseteq DOMAIN executionSteps[i].heap

RECURSIVE ReachableIds(_, _)
\* the heap ids reachable from the ids S through the list elements of h
ReachableIds(S, h) ==
    LET T == S \cup UNION {{h[id].elements[j].id :
                               j \in {k \in 1..Len(h[id].elements) :
                                         h[id].elements[k].type = "reference"}} :
                           id \in S \cap DOMAIN h}
    IN IF T = S THEN S ELSE ReachableIds(T, h)

\* the heap ids the raw snapshot step refers to, directly or through lists
SnapshotIds(step, h) ==
    ReachableIds({step.frame.variables[name].id :
                     name \in {n \in DOMAIN step.frame.variables :
                                  step.frame.variables[n].type = "reference"}}, h)

RECURSIVE Describes(_, _, _, _)
\* the descriptor d, read in the heap h, shows the live value val as it is
\* among the objects os
Describes(d, val, os, h) ==
    IF val.k = "int" THEN d = Prim(Str(val.n))
    ELSE IF val.k = "str" THEN d = Prim(val.s)
    ELSE IF val.k = "mod" THEN d.type = "primitive"
    ELSE /\ d.type = "reference" /\ d.id \in DOMAIN h
         /\ IF os[val.o].cls \in {"list", "tuple"}
            THEN /\ h[d.id].type = "list"
                 /\ Len(h[d.id].elements) = Len(os[val.o].elems)
                 /\ \A j \in 1..Len(os[val.o].elems) :
                        Describes(h[d.id].elements[j], os[val.o].elems[j], os, h)
            ELSE IF os[val.o].cls \in {"dict", "Counter"}
            THEN h[d.id].type = "dict" /\ h[d.id].value = DictValue(os[val.o].items)
            ELSE h[d.id].type = "function"

C27_StaleAnalysisIgnored ==
    /\ []((code # "" /\ \A i \in DOMAIN analyses : analyses[i].phase = "settled")
            => analysis.complexityAnalysis \in {ComplexityOf(code), "Error"})
    /\ [][\A i \in DOMAIN analyses :
            (analyses[i].phase # "settled" /\ analyses'[i].phase = "settled"
                    /\ analysis' # analysis)
                => (i = Len(analyses) /\ analyses[i].code = code)]_vars

\* C28: the heap objects of two different reference variables of one frame
\* are drawn at different points, whatever their ordinals and object types.
C28_DistinctPositions ==
    \A a, b \in DOMAIN placed :
        (a # b /\ placed[a].drawn /\ placed[b].drawn) => placed[a].pos # placed[b].pos

\* C29: process_value returns a descriptor for every value a frame variable
\* is bound to, a list that contains itself included: no line event's capture
\* is cut short by the interpreter's recursion limit, which would raise in
\* the traced frame and end the user's program.
C29_CaptureTerminatesOnCycles == ~exc.untraced

\* a step of auto-play: the index moves while auto-play stays on
C30_Tick == isAutoPlaying /\ isAutoPlaying' /\ currentStepIndex' # currentStepIndex

\* auto-play goes off while its button is disabled and the index stays: no
\* click did it
C30_SelfStop ==
    isAutoPlaying /\ ~isAutoPlaying' /\ isPlayDisabled /\ currentStepIndex' = currentStepIndex

\* a manual navigation action
C30_Manual == handleFirst \/ handlePrev \/ handleNext \/ handleLast \/ handleSliderChange

\* C30: while auto-play is on and the user leaves the Run Code button alone,
\* every tick moves currentStepIndex forward by exactly 1, the index stays
\* within the trace, auto-play started below the last step eventually goes
\* off, it goes off by itself only with the index on the last step of the
\* trace, and every manual navigation action switches it off.
C30_AutoPlay ==
    /\ [][C30_Tick => currentStepIndex' = currentStepIndex + 1]_vars
    /\ [](isAutoPlaying => currentStepIndex <= Len(executionSteps) - 1)
    /\ (isAutoPlaying /\ currentStepIndex < totalSteps - 1) ~> ~isAutoPlaying
    /\ [][C30_SelfStop => currentStepIndex' = Len(executionSteps') - 1]_vars
    /\ [][C30_Manual => ~isAutoPlaying']_vars

\* the drawList calls one drawing can make: a call at level l makes at most
\* MaxDrawElems calls at level l + 1
RECURSIVE CallBound(_)
CallBound(level) == IF level = MaxLevel THEN 1 ELSE 1 + MaxDrawElems * CallBound(level + 1)

\* C7: whatever the heap, drawList never runs at a level above 3, at most 4
\* calls are active at once, and the number of calls is bounded, so that the
\* recursion terminates.
C7_DrawDepthCapped ==
    /\ \A k \in 1..Len(drawStack) : drawStack[k].level = k - 1 /\ drawStack[k].level <= 3
    /\ Len(drawStack) <= 4
    /\ drawCalls <= CallBound(0)

\* C7 witness: the drawing of a list that holds a reference to itself has
\* finished, the branch beyond the cap left out
C7_Witness ==
    /\ drawPhase = "done" /\ omitted /\ drawCalls >= 4
    /\ drawHeap[1].type = "list"
    /\ \E k \in 1..Len(drawHeap[1].elements) : drawHeap[1].elements[k] = Ref(1)

\* every drawing finishes
C7_DrawTerminates == <>(drawPhase = "done")
====
